---- MODULE Spec2Model ----
(***************************************************************************)
(* Model of the CCBP rule-driven document transformation engine            *)
(* (ccbp/core/path_mapping_engine) and of the material resolver            *)
(* (CapcutHandler._build_material_map with FileSystemHandler).             *)
(*                                                                         *)
(* Python str values are TLA+ strings; a character is a string of length   *)
(* one, and the Sequences operators (Len, SubSeq, \o) work on strings.     *)
(* Paths use "/" as their separator (pathlib on a POSIX host).             *)
(***************************************************************************)
EXTENDS Integers, Sequences, FiniteSets, TLC

VARIABLES
    \* ---- engine (PathMappingEngine) ----
    config_data,        \* the rule configuration document handed to RuleConfig
    json_data,          \* the document handed to process_json
    ctx_material_map,   \* process_json's material_map argument
    ctx_csv_row,        \* process_json's csv_row_data argument
    processed_data,     \* what process_json returned
    trail,              \* one record per string field visited, in walk order
    engine,             \* the constructed PathMappingEngine: rules and settings
    epc,                \* "new" | "ready" | "done" | "off"
    \* ---- resolver (CapcutHandler) ----
    materials,          \* meta_data["draft_materials"][type 0]["value"]
    csv_row_data,       \* the CSV row
    template_material_base,
    change_material_base,
    fs_files,           \* the regular files that exist
    material_map,       \* the map under construction
    processed_placeholders,
    mat_idx,            \* next material of the loop
    resolved,           \* one record per material the loop has passed
    rpc,                \* "materials" | "process" | "done" | "failed" | "off"
    update_result,      \* what update_material_paths returned: "True" | "False"
    \* ---- one rule (create_rule, Rule.apply) ----
    factory_config,     \* the rule configuration handed to create_rule
    created_rule,       \* what create_rule returned
    applied_value,      \* apply's value argument
    applied_context,    \* apply's context argument
    apply_result,       \* how apply ended: the value returned, or raised
    fpc,                \* "config" | "created" | "dropped" | "applied" | "off"
    \* ---- batch worker (BatchWorker.run and BatchWorker.cancel) ----
    batch_input,        \* license answer, path validation, the CSV file
    csv_data,           \* self._csv_data: the rows read from the CSV file
    row_idx,            \* the row of the loop of run, from 1
    is_cancelled,       \* self._is_cancelled
    processed_count,
    error_count,
    cycle,              \* the steps done for the row started last
    finished,           \* the arguments of finished.emit
    signals,            \* the signals run has emitted, in order
    generated_project_names,
    wpc,                \* the position of run, or "off"
    \* ---- process_json on objects in memory ----
    py_heap,            \* the dicts and lists in memory, by address
    py_call,            \* py_heap and the arguments when process_json was called
    py_result,          \* what process_json returned
    hpc                 \* "call" | "done" | "off"

engineVars == <<config_data, json_data, ctx_material_map, ctx_csv_row,
                processed_data, trail, engine, epc>>
resolverVars == <<materials, csv_row_data, template_material_base,
                  change_material_base, fs_files, material_map,
                  processed_placeholders, mat_idx, resolved, rpc, update_result>>
ruleVars == <<factory_config, created_rule, applied_value, applied_context,
              apply_result, fpc>>
\* the variables beside the engine's, and beside the engine's and the
\* resolver's
workerVars == <<batch_input, csv_data, row_idx, is_cancelled, processed_count,
                error_count, cycle, finished, signals, generated_project_names, wpc>>
heapVars == <<py_heap, py_call, py_result, hpc>>
outsideEngine == <<resolverVars, ruleVars, workerVars, heapVars>>
outsideResolver == <<ruleVars, workerVars, heapVars>>
outsideRule == <<engineVars, resolverVars, workerVars, heapVars>>
outsideWorker == <<engineVars, resolverVars, ruleVars, heapVars>>
vars == <<engineVars, resolverVars, ruleVars, workerVars, heapVars>>

-----------------------------------------------------------------------------
(* Python str operations.  Throughout, a value that is needed more than     *)
(* once is handed to a helper operator as an argument, the way the code     *)
(* binds it to a local variable, instead of being computed again.           *)

Ch(s, i) == SubSeq(s, i, i)

StartsWith(s, p) == Len(p) <= Len(s) /\ SubSeq(s, 1, Len(p)) = p

\* Python: sub in s
Contains(s, sub) ==
    \E i \in 1..(Len(s) - Len(sub) + 1) : SubSeq(s, i, i + Len(sub) - 1) = sub

MinOrZero(S) == IF S = {} THEN 0 ELSE CHOOSE i \in S : \A j \in S : i <= j
MaxOrZero(S) == IF S = {} THEN 0 ELSE CHOOSE i \in S : \A j \in S : j <= i

Occurrences(s, sub) ==
    { i \in 1..(Len(s) - Len(sub) + 1) : SubSeq(s, i, i + Len(sub) - 1) = sub }

\* Python: s.find(sub), 1-based, 0 when absent
Find(s, sub) == MinOrZero(Occurrences(s, sub))

\* Python: s.rfind(sub), 1-based, 0 when absent
RFind(s, sub) == MaxOrZero(Occurrences(s, sub))

\* s[:i-1], or s when i is 0
Before(s, i) == IF i = 0 THEN s ELSE SubSeq(s, 1, i - 1)

\* Python: s.split(sep)[0]
SplitHead(s, sep) == Before(s, Find(s, sep))

LowerAlphabet == "abcdefghijklmnopqrstuvwxyz"
UpperAlphabet == "ABCDEFGHIJKLMNOPQRSTUVWXYZ"
DigitAlphabet == "0123456789"

CharsOf(s) == { Ch(s, i) : i \in 1..Len(s) }

\* str.isalnum on one character
IsAlnum(c) == Contains(LowerAlphabet \o UpperAlphabet \o DigitAlphabet, c)

\* the regex class \w on one character
IsWordChar(c) == IsAlnum(c) \/ c = "_"

LowerCh(c) ==
    IF Contains(UpperAlphabet, c) THEN Ch(LowerAlphabet, Find(UpperAlphabet, c)) ELSE c

RECURSIVE Lower(_)
\* Python: s.lower()
Lower(s) == IF s = "" THEN "" ELSE LowerCh(Ch(s, 1)) \o Lower(Tail(s))

RECURSIVE LStrip(_)
LStrip(s) == IF s # "" /\ Ch(s, 1) = " " THEN LStrip(Tail(s)) ELSE s

RECURSIVE RStrip(_)
RStrip(s) ==
    IF s # "" /\ Ch(s, Len(s)) = " " THEN RStrip(SubSeq(s, 1, Len(s) - 1)) ELSE s

\* Python: s.strip()
Strip(s) == RStrip(LStrip(s))

-----------------------------------------------------------------------------
(* pathlib.Path on POSIX paths *)

RECURSIVE PathParts(_)

PartsAt(p, i) ==
    (IF Before(p, i) \in {"", "."} THEN <<>> ELSE <<Before(p, i)>>)
    \o (IF i = 0 THEN <<>> ELSE PathParts(SubSeq(p, i + 1, Len(p))))

\* the components of a path, empty and "." components dropped
PathParts(p) == IF p = "" THEN <<>> ELSE PartsAt(p, Find(p, "/"))

LastOf(parts) == IF parts = <<>> THEN "" ELSE parts[Len(parts)]
LastButOneOf(parts) == IF Len(parts) < 2 THEN "" ELSE parts[Len(parts) - 1]

\* Path(p).name
PathName(p) == LastOf(PathParts(p))

\* Path(p).parent.name
PathParentName(p) == LastButOneOf(PathParts(p))

StemAt(name, i) == IF 1 < i /\ i < Len(name) THEN SubSeq(name, 1, i - 1) ELSE name
StemOf(name) == StemAt(name, RFind(name, "."))

\* Path(p).stem
PathStem(p) == StemOf(PathName(p))

RECURSIVE JoinParts(_)
JoinParts(parts) ==
    IF parts = <<>> THEN "" ELSE "/" \o Head(parts) \o JoinParts(Tail(parts))

RootOr(joined) == IF joined = "" THEN "/" ELSE joined

\* str(Path(p).resolve()) of an absolute path without symlinks or "..":
\* repeated and trailing separators and "." components disappear
Resolve(p) == RootOr(JoinParts(PathParts(p)))

\* str(Path(base) / name) for a resolved base and a relative name
PathJoin(base, name) == (IF base = "/" THEN "" ELSE base) \o JoinParts(PathParts(name))

-----------------------------------------------------------------------------
(* JSON values: what json.load produces and process_json walks *)

JStr(s) == [t |-> "str", s |-> s]
JNum(n) == [t |-> "num", n |-> n]
JBool(b) == [t |-> "bool", b |-> b]
JNull == [t |-> "null"]
JArr(e) == [t |-> "arr", e |-> e]
\* a dict: its items in insertion order, keys distinct
JObj(f) == [t |-> "obj", f |-> f]
KV(k, v) == [k |-> k, v |-> v]
EmptyDict == JObj(<<>>)

\* Python: isinstance(x, str)
IsStr(x) == x.t = "str"

\* Python: bool(x)
Truthy(x) ==
    CASE x.t = "str" -> x.s # ""
      [] x.t = "num" -> x.n # 0
      [] x.t = "bool" -> x.b
      [] x.t = "null" -> FALSE
      [] x.t = "arr" -> x.e # <<>>
      [] x.t = "obj" -> x.f # <<>>

\* Python: key in d
HasKey(d, key) == \E i \in 1..Len(d.f) : d.f[i].k = key

\* Python: d.get(key, default)
DictGet(d, key, default) ==
    IF HasKey(d, key)
    THEN d.f[CHOOSE i \in 1..Len(d.f) : d.f[i].k = key].v
    ELSE default

\* Python: d[key] = v, on the items of d
DictSet(f, key, v) ==
    IF \E i \in 1..Len(f) : f[i].k = key
    THEN [i \in 1..Len(f) |-> IF f[i].k = key THEN KV(key, v) ELSE f[i]]
    ELSE Append(f, KV(key, v))

-----------------------------------------------------------------------------
(* json.dumps(x, ensure_ascii=False, separators=(',', ':')) *)

EscapeCh(c) == IF c = "\"" THEN "\\\"" ELSE IF c = "\\" THEN "\\\\" ELSE c

RECURSIVE EscapeJson(_)
EscapeJson(s) == IF s = "" THEN "" ELSE EscapeCh(Ch(s, 1)) \o EscapeJson(Tail(s))

RECURSIVE NatToStr(_)
NatToStr(n) ==
    IF n < 10 THEN Ch(DigitAlphabet, n + 1)
    ELSE NatToStr(n \div 10) \o Ch(DigitAlphabet, (n % 10) + 1)

IntToStr(n) == IF n < 0 THEN "-" \o NatToStr(0 - n) ELSE NatToStr(n)

RECURSIVE Dumps(_)
RECURSIVE DumpsItems(_, _)
RECURSIVE DumpsElems(_, _)

DumpsItems(f, i) ==
    IF i > Len(f) THEN ""
    ELSE (IF i > 1 THEN "," ELSE "")
         \o "\"" \o EscapeJson(f[i].k) \o "\":" \o Dumps(f[i].v)
         \o DumpsItems(f, i + 1)

DumpsElems(e, i) ==
    IF i > Len(e) THEN ""
    ELSE (IF i > 1 THEN "," ELSE "") \o Dumps(e[i]) \o DumpsElems(e, i + 1)

Dumps(x) ==
    CASE x.t = "str" -> "\"" \o EscapeJson(x.s) \o "\""
      [] x.t = "num" -> IntToStr(x.n)
      [] x.t = "bool" -> IF x.b THEN "true" ELSE "false"
      [] x.t = "null" -> "null"
      [] x.t = "arr" -> "[" \o DumpsElems(x.e, 1) \o "]"
      [] x.t = "obj" -> "{" \o DumpsItems(x.f, 1) \o "}"

-----------------------------------------------------------------------------
(* json.loads(s): a recursive-descent parser.  Each parser returns          *)
(* [ok, v, i]: success, the value, the position after it.  Covered: objects,*)
(* arrays, strings with the escapes \" and \\, non-negative integers, true, *)
(* false, null, and spaces as whitespace.                                   *)

ParseFail == [ok |-> FALSE, v |-> JNull, i |-> 0]
ParseOk(v, i) == [ok |-> TRUE, v |-> v, i |-> i]

RECURSIVE SkipWs(_, _)
SkipWs(s, i) == IF i <= Len(s) /\ Ch(s, i) = " " THEN SkipWs(s, i + 1) ELSE i

RECURSIVE ScanString(_, _, _)
\* s[i] is the first character after the opening quote; acc is what was read
ScanString(s, i, acc) ==
    IF i > Len(s) THEN ParseFail
    ELSE IF Ch(s, i) = "\"" THEN ParseOk(JStr(acc), i + 1)
    ELSE IF Ch(s, i) = "\\"
    THEN IF i + 1 <= Len(s) /\ Ch(s, i + 1) \in {"\"", "\\"}
         THEN ScanString(s, i + 2, acc \o Ch(s, i + 1))
         ELSE ParseFail
    ELSE ScanString(s, i + 1, acc \o Ch(s, i))

RECURSIVE ScanDigits(_, _, _)
ScanDigits(s, i, n) ==
    IF i <= Len(s) /\ Contains(DigitAlphabet, Ch(s, i))
    THEN ScanDigits(s, i + 1, 10 * n + (Find(DigitAlphabet, Ch(s, i)) - 1))
    ELSE ParseOk(JNum(n), i)

RECURSIVE ParseValue(_, _)
RECURSIVE ParseItems(_, _, _)
RECURSIVE ParseElems(_, _, _)

\* after an item of an object: s[n] closes the object or separates two items
AfterItem(s, f, n) ==
    IF n > Len(s) THEN ParseFail
    ELSE IF Ch(s, n) = "}" THEN ParseOk(JObj(f), n + 1)
    ELSE IF Ch(s, n) = "," THEN ParseItems(s, SkipWs(s, n + 1), f)
    ELSE ParseFail

AfterItemValue(s, f, key, val) ==
    IF ~val.ok THEN ParseFail
    ELSE AfterItem(s, DictSet(f, key, val.v), SkipWs(s, val.i))

AfterColon(s, f, key, c) ==
    IF c > Len(s) \/ Ch(s, c) # ":" THEN ParseFail
    ELSE AfterItemValue(s, f, key, ParseValue(s, SkipWs(s, c + 1)))

AfterKey(s, f, key) ==
    IF ~key.ok THEN ParseFail ELSE AfterColon(s, f, key.v.s, SkipWs(s, key.i))

\* s[i] is the first non-space character after "{" or after a ","
ParseItems(s, i, f) ==
    IF i > Len(s) \/ Ch(s, i) # "\"" THEN ParseFail
    ELSE AfterKey(s, f, ScanString(s, i + 1, ""))

\* after an element of an array: s[n] closes the array or separates two elements
AfterElem(s, e, n) ==
    IF n > Len(s) THEN ParseFail
    ELSE IF Ch(s, n) = "]" THEN ParseOk(JArr(e), n + 1)
    ELSE IF Ch(s, n) = "," THEN ParseElems(s, SkipWs(s, n + 1), e)
    ELSE ParseFail

AfterElemValue(s, e, val) ==
    IF ~val.ok THEN ParseFail ELSE AfterElem(s, Append(e, val.v), SkipWs(s, val.i))

\* s[i] is the first non-space character after "[" or after a ","
ParseElems(s, i, e) == AfterElemValue(s, e, ParseValue(s, i))

\* s[j] is the first non-space character after "{"
ObjectFrom(s, j) ==
    IF j <= Len(s) /\ Ch(s, j) = "}" THEN ParseOk(EmptyDict, j + 1)
    ELSE ParseItems(s, j, <<>>)

\* s[j] is the first non-space character after "["
ArrayFrom(s, j) ==
    IF j <= Len(s) /\ Ch(s, j) = "]" THEN ParseOk(JArr(<<>>), j + 1)
    ELSE ParseElems(s, j, <<>>)

LiteralAt(rest, i) ==
    IF StartsWith(rest, "true") THEN ParseOk(JBool(TRUE), i + 4)
    ELSE IF StartsWith(rest, "false") THEN ParseOk(JBool(FALSE), i + 5)
    ELSE IF StartsWith(rest, "null") THEN ParseOk(JNull, i + 4)
    ELSE ParseFail

ParseValue(s, i) ==
    IF i > Len(s) THEN ParseFail
    ELSE IF Ch(s, i) = "{" THEN ObjectFrom(s, SkipWs(s, i + 1))
    ELSE IF Ch(s, i) = "[" THEN ArrayFrom(s, SkipWs(s, i + 1))
    ELSE IF Ch(s, i) = "\"" THEN ScanString(s, i + 1, "")
    ELSE IF Contains(DigitAlphabet, Ch(s, i)) THEN ScanDigits(s, i, 0)
    ELSE LiteralAt(SubSeq(s, i, Len(s)), i)

WholeInput(s, val) ==
    IF val.ok /\ SkipWs(s, val.i) = Len(s) + 1 THEN val ELSE ParseFail

\* json.loads(s): ok is FALSE where Python raises JSONDecodeError
Loads(s) == WholeInput(s, ParseValue(s, SkipWs(s, 1)))

-----------------------------------------------------------------------------
(* Regular expressions.  The patterns of the rule configurations are of the *)
(* form  [^] literal [ group literal ]  where group is (\w+), (\d+) or       *)
(* ([a-zA-Z0-9_.-]+); in a literal, \. stands for "." and \\ for a          *)
(* backslash, and the literal \\.? (a backslash, then any one character or  *)
(* none) may end the pattern.  A pattern with an unbalanced parenthesis is  *)
(* what re.compile rejects with re.error.                                   *)

RECURSIVE Unescape(_)
Unescape(p) ==
    IF p = "" THEN ""
    ELSE IF Ch(p, 1) = "\\" /\ Len(p) >= 2
         THEN Ch(p, 2) \o Unescape(SubSeq(p, 3, Len(p)))
         ELSE Ch(p, 1) \o Unescape(Tail(p))

WordGroup == "(\\w+)"
DigitGroup == "(\\d+)"
NameGroup == "([a-zA-Z0-9_.-]+)"
NoHashGroup == "([^#]+)"
BackslashThenAny == "\\\\.?"

GroupIn(body) ==
    IF Contains(body, WordGroup) THEN WordGroup
    ELSE IF Contains(body, DigitGroup) THEN DigitGroup
    ELSE IF Contains(body, NameGroup) THEN NameGroup
    ELSE IF Contains(body, NoHashGroup) THEN NoHashGroup
    ELSE ""

NoParen(x) == ~Contains(x, "(") /\ ~Contains(x, ")")

CompileSplit(anchored, grp, pre, post) ==
    [ok |-> NoParen(pre) /\ NoParen(post),
     anchored |-> anchored,
     groups |-> IF grp = "" THEN 0 ELSE 1,
     cls |-> CASE grp = DigitGroup -> "d" [] grp = NameGroup -> "n"
               [] grp = NoHashGroup -> "x" [] OTHER -> "w",
     pre |-> Unescape(pre),
     post |-> IF post = BackslashThenAny THEN "\\" ELSE Unescape(post),
     opt_any |-> post = BackslashThenAny]

CompileGroup(anchored, body, grp) ==
    CompileSplit(anchored, grp,
                 IF grp = "" THEN body ELSE Before(body, Find(body, grp)),
                 IF grp = "" THEN ""
                 ELSE SubSeq(body, Find(body, grp) + Len(grp), Len(body)))

CompileBody(anchored, body) == CompileGroup(anchored, body, GroupIn(body))

\* re.compile(p): ok is FALSE where Python raises re.error
ReCompile(p) == CompileBody(StartsWith(p, "^"), IF StartsWith(p, "^") THEN Tail(p) ELSE p)

InClass(cls, c) ==
    CASE cls = "d" -> Contains(DigitAlphabet, c)
      [] cls = "n" -> IsAlnum(c) \/ c \in {"_", ".", "-"}
      [] cls = "x" -> c # "#"
      [] OTHER -> IsWordChar(c)

NoMatch == [ok |-> FALSE, len |-> 0, g1 |-> ""]

\* the lengths the group can have when it starts at position b of s
GroupFits(re, s, b) ==
    { n \in 1..(Len(s) - b + 1) :
         /\ \A j \in b..(b + n - 1) : InClass(re.cls, Ch(s, j))
         /\ StartsWith(SubSeq(s, b + n, Len(s)), re.post) }

\* the group is greedy: it takes the longest run after which the rest matches
GroupMatch(re, s, b, n) ==
    IF n = 0 THEN NoMatch
    ELSE [ok |-> TRUE,
          len |-> Len(re.pre) + n + Len(re.post)
                  + (IF re.opt_any /\ b + n + Len(re.post) <= Len(s) THEN 1 ELSE 0),
          g1 |-> SubSeq(s, b, b + n - 1)]

\* the match of a compiled pattern that starts at position i of s, if any
ReMatchAt(re, s, i) ==
    IF (re.anchored /\ i # 1) \/ ~StartsWith(SubSeq(s, i, Len(s)), re.pre) THEN NoMatch
    ELSE IF re.groups = 0 THEN [ok |-> TRUE, len |-> Len(re.pre), g1 |-> ""]
    ELSE GroupMatch(re, s, i + Len(re.pre), MaxOrZero(GroupFits(re, s, i + Len(re.pre))))

Prepend(x, r) == [ok |-> r.ok, s |-> x \o r.s]

ExpandFail == [ok |-> FALSE, s |-> ""]

RECURSIVE ExpandTemplate(_, _, _)

\* the escape that starts a template: a backslash and the character c.
\* \1 and \g<1> are the first group, \\ a backslash, \n and \t a line end
\* and a tab; a reference to a group the pattern does not have, another
\* letter or no character after the backslash raise re.error; before any
\* other character the backslash stays.  Patterns have at most one group,
\* and the templates of the model have no octal escape, no digit after \1
\* and none of \a \b \f \r \v.
ExpandEscape(tpl, groups, g1, c) ==
    CASE c = "" -> ExpandFail
      [] c = "1" ->
            IF groups < 1 THEN ExpandFail
            ELSE Prepend(g1, ExpandTemplate(SubSeq(tpl, 3, Len(tpl)), groups, g1))
      [] c = "g" ->
            IF StartsWith(tpl, "\\g<1>") /\ groups >= 1
            THEN Prepend(g1, ExpandTemplate(SubSeq(tpl, 6, Len(tpl)), groups, g1))
            ELSE ExpandFail
      [] c = "\\" -> Prepend("\\", ExpandTemplate(SubSeq(tpl, 3, Len(tpl)), groups, g1))
      [] c = "n" -> Prepend("\n", ExpandTemplate(SubSeq(tpl, 3, Len(tpl)), groups, g1))
      [] c = "t" -> Prepend("\t", ExpandTemplate(SubSeq(tpl, 3, Len(tpl)), groups, g1))
      [] c # "" /\ IsAlnum(c) /\ c \notin {"1", "g", "n", "t"} -> ExpandFail
      [] OTHER -> Prepend("\\" \o c, ExpandTemplate(SubSeq(tpl, 3, Len(tpl)), groups, g1))

\* match.expand(template) for a template that is a string: ok is FALSE
\* where Python raises re.error
ExpandTemplate(tpl, groups, g1) ==
    IF tpl = "" THEN [ok |-> TRUE, s |-> ""]
    ELSE IF Ch(tpl, 1) = "\\"
    THEN ExpandEscape(tpl, groups, g1, IF Len(tpl) = 1 THEN "" ELSE Ch(tpl, 2))
    ELSE Prepend(Ch(tpl, 1), ExpandTemplate(Tail(tpl), groups, g1))

\* match.expand(self.replacement): a replacement that is no string raises
\* TypeError
Expansion(replacement, groups, g1) ==
    IF IsStr(replacement) THEN ExpandTemplate(replacement.s, groups, g1) ELSE ExpandFail

-----------------------------------------------------------------------------
(* Rules: rules.py *)

\* None, where create_rule returns no rule
NoRule == [kind |-> "none"]
JTrue == JBool(TRUE)

StrOr(x, default) == IF IsStr(x) THEN x.s ELSE default
ListOr(x, default) == IF x.t = "arr" THEN x.e ELSE default

DefaultPriority == 999

\* Rule.__init__: target_keys that are missing or not a list become []
RuleTargetKeys(rule_config) == ListOr(DictGet(rule_config, "target_keys", JNull), <<>>)

\* what RegexRule.__init__ and RegexPlaceholderRule.__init__ leave in
\* compiled_pattern: has_pattern is FALSE for None
HasCompiledPattern(kind, pattern_str, source, compiled) ==
    CASE kind = "regex" -> pattern_str # "" /\ compiled.ok
      [] kind = "regex_placeholder" ->
            pattern_str # "" /\ Truthy(source) /\ compiled.ok /\ compiled.groups >= 1
      [] OTHER -> FALSE

\* self.enabled after __init__: a RegexRule without a pattern or with one
\* that does not compile is disabled; a RegexPlaceholderRule without a
\* pattern is only warned about, without a source, with a pattern that does
\* not compile or has no group it is disabled
EnabledAfterInit(kind, cfg_enabled, pattern_str, source, compiled) ==
    CASE kind = "regex" -> cfg_enabled /\ pattern_str # "" /\ compiled.ok
      [] kind = "regex_placeholder" ->
            IF pattern_str = "" THEN cfg_enabled
            ELSE cfg_enabled /\ Truthy(source) /\ compiled.ok /\ compiled.groups >= 1
      [] OTHER -> cfg_enabled

BuildRule(rule_config, kind, pattern_str, source, compiled) ==
    [kind |-> kind,
     id |-> DictGet(rule_config, "id", JStr("unknown_rule")),
     target_keys |-> RuleTargetKeys(rule_config),
     priority |-> DictGet(rule_config, "priority", JNum(DefaultPriority)),
     lookup_methods |-> ListOr(DictGet(rule_config, "lookup_methods", JArr(<<>>)), <<>>),
     methods_iterable |->
        DictGet(rule_config, "lookup_methods", JArr(<<>>)).t \in {"arr", "obj", "str"},
     pattern_str |-> pattern_str,
     replacement |-> DictGet(rule_config, "replacement", JStr("")),
     source |-> source,
     re |-> compiled,
     has_pattern |-> HasCompiledPattern(kind, pattern_str, source, compiled),
     enabled |-> EnabledAfterInit(kind, Truthy(DictGet(rule_config, "enabled", JTrue)),
                                  pattern_str, source, compiled)]

\* the rule object that rule_class(rule_config) builds
RuleInstance(rule_config) ==
    BuildRule(rule_config,
              DictGet(rule_config, "type", JNull).s,
              StrOr(DictGet(rule_config, "pattern", JStr("")), ""),
              DictGet(rule_config, "source", JNull),
              ReCompile(StrOr(DictGet(rule_config, "pattern", JStr("")), "")))

RuleTypes == {"material_map_lookup", "regex", "regex_placeholder"}

EnabledOrNone(rule_instance) == IF rule_instance.enabled THEN rule_instance ELSE NoRule

KnownRuleType(rule_type) == Truthy(rule_type) /\ IsStr(rule_type) /\ rule_type.s \in RuleTypes

\* rule_class(rule_config) raises: re.compile gets a pattern that is truthy
\* and not a string (a placeholder rule compiles only when it has a source)
InitRaises(rule_type, pattern, source) ==
    /\ Truthy(pattern) /\ ~IsStr(pattern)
    /\ \/ rule_type = JStr("regex")
       \/ rule_type = JStr("regex_placeholder") /\ Truthy(source)

\* create_rule
CreateRule(rule_config) ==
    IF rule_config.t # "obj" THEN NoRule
    ELSE IF ~KnownRuleType(DictGet(rule_config, "type", JNull)) THEN NoRule
    ELSE IF InitRaises(DictGet(rule_config, "type", JNull),
                       DictGet(rule_config, "pattern", JStr("")),
                       DictGet(rule_config, "source", JNull))
    THEN NoRule
    ELSE EnabledOrNone(RuleInstance(rule_config))

AppliesWithAnyTargetKeys(rule, key) == rule.target_keys # <<>>

\* Rule.applies_to_key
AppliesToKey(rule, key) ==
    /\ rule.target_keys # <<>>
    /\ \E i \in 1..Len(rule.target_keys) :
          rule.target_keys[i] = JStr("*") \/ rule.target_keys[i] = JStr(key)

\* the candidate key one lookup method derives; ok is FALSE for None
NoKey == [ok |-> FALSE, s |-> ""]
SomeKey(s) == [ok |-> TRUE, s |-> s]

DefaultExtraInfoPattern == "^([a-zA-Z0-9_.-]+)\\\\.?"

GroupOrNone(m) == IF m.ok THEN SomeKey(m.g1) ELSE NoKey

\* re.match(pattern, s); a pattern that does not compile raises, which the
\* caller catches
ReMatch(re, s) == IF re.ok THEN ReMatchAt(re, s, 1) ELSE NoMatch

\* match.group(1) of re.match(pattern, s); a pattern without group raises
\* IndexError there, which the loop catches
KeyFromMatch(re, s) == IF re.groups < 1 THEN NoKey ELSE GroupOrNone(ReMatch(re, s))

ExtraInfoKey(extra_info, pattern) ==
    IF Truthy(extra_info) /\ IsStr(extra_info) /\ IsStr(pattern)
    THEN KeyFromMatch(ReCompile(pattern.s), extra_info.s)
    ELSE NoKey

FieldValueKey(field_name, item) ==
    IF Truthy(field_name) /\ Truthy(DictGet(item, field_name.s, JNull))
       /\ IsStr(DictGet(item, field_name.s, JNull))
    THEN SomeKey(DictGet(item, field_name.s, JNull).s)
    ELSE NoKey

TypeAndStemKey(item_type, stem) ==
    IF Truthy(item_type) /\ stem # "" THEN SomeKey(stem) ELSE NoKey

KeyByMethod(method_name, method_config, value, item) ==
    CASE method_name = JStr("extra_info") ->
            ExtraInfoKey(DictGet(item, "extra_info", JNull),
                         DictGet(method_config, "pattern", JStr(DefaultExtraInfoPattern)))
      [] method_name = JStr("path_stem") -> SomeKey(PathStem(value))
      [] method_name = JStr("field_value") ->
            FieldValueKey(DictGet(method_config, "field", JNull), item)
      [] method_name = JStr("type_and_stem") ->
            TypeAndStemKey(DictGet(item, "type", JNull), PathStem(value))
      [] OTHER -> NoKey

\* derived_key of one pass of the loop of MaterialMapLookupRule.apply
DerivedKey(method_config, value, item) ==
    KeyByMethod(DictGet(method_config, "method", JNull), method_config, value, item)

MappedOrOriginal(map_value, value) == IF IsStr(map_value) THEN map_value.s ELSE value

RECURSIVE LookupLoop(_, _, _, _)

LookupStepPastNonString(lookup_methods, i, value, context, derived_key) ==
    IF derived_key.ok /\ derived_key.s \in DOMAIN context.material_map
       /\ IsStr(context.material_map[derived_key.s])
    THEN context.material_map[derived_key.s].s
    ELSE LookupLoop(lookup_methods, i + 1, value, context)

\* the end of one pass of the loop: return on a key that is in the map
LookupStep(lookup_methods, i, value, context, derived_key) ==
    IF derived_key.ok /\ derived_key.s \in DOMAIN context.material_map
    THEN MappedOrOriginal(context.material_map[derived_key.s], value)
    ELSE LookupLoop(lookup_methods, i + 1, value, context)

\* the loop of MaterialMapLookupRule.apply over lookup_methods; the rule
\* keeps what the configuration has under lookup_methods: the members of a
\* list, and nothing to try for a string or an object (no member is a dict)
LookupLoop(lookup_methods, i, value, context) ==
    IF i > Len(lookup_methods) THEN value
    ELSE IF lookup_methods[i].t # "obj"
    THEN LookupLoop(lookup_methods, i + 1, value, context)
    ELSE LookupStep(lookup_methods, i, value, context,
                    DerivedKey(lookup_methods[i], value, context.item))

\* MaterialMapLookupRule.apply
LookupApply(rule, value, context) ==
    IF value = "" THEN value
    ELSE IF DOMAIN context.material_map = {} THEN value
    ELSE LookupLoop(rule.lookup_methods, 1, value, context)

ExpandedOr(x, matched) == IF x.ok THEN x.s ELSE matched

RECURSIVE RegexSub(_, _, _, _)

RegexSubAtDroppingFailed(re, replacement, s, i, m) ==
    IF m.ok /\ m.len > 0
    THEN ExpandedOr(Expansion(replacement, re.groups, m.g1), "")
         \o RegexSub(re, replacement, s, i + m.len)
    ELSE Ch(s, i) \o RegexSub(re, replacement, s, i + 1)

\* replacer(match), then the rest of the scan
RegexSubAt(re, replacement, s, i, m) ==
    IF m.ok /\ m.len > 0
    THEN ExpandedOr(Expansion(replacement, re.groups, m.g1),
                    SubSeq(s, i, i + m.len - 1))
         \o RegexSub(re, replacement, s, i + m.len)
    ELSE Ch(s, i) \o RegexSub(re, replacement, s, i + 1)

\* compiled_pattern.sub(replacer, value), from position i on
RegexSub(re, replacement, s, i) ==
    IF i > Len(s) THEN "" ELSE RegexSubAt(re, replacement, s, i, ReMatchAt(re, s, i))

\* RegexRule.apply
RegexApply(rule, value, context) ==
    IF ~rule.has_pattern THEN value ELSE RegexSub(rule.re, rule.replacement, value, 1)

RECURSIVE PyRepr(_)
RECURSIVE PyReprItems(_, _)
RECURSIVE PyReprElems(_, _)

PyReprItems(f, i) ==
    IF i > Len(f) THEN ""
    ELSE (IF i > 1 THEN ", " ELSE "") \o "'" \o f[i].k \o "': " \o PyRepr(f[i].v)
         \o PyReprItems(f, i + 1)

PyReprElems(e, i) ==
    IF i > Len(e) THEN ""
    ELSE (IF i > 1 THEN ", " ELSE "") \o PyRepr(e[i]) \o PyReprElems(e, i + 1)

\* Python: repr(x); a str without quote, backslash or control character
PyRepr(x) ==
    CASE x.t = "str" -> "'" \o x.s \o "'"
      [] x.t = "num" -> IntToStr(x.n)
      [] x.t = "bool" -> IF x.b THEN "True" ELSE "False"
      [] x.t = "arr" -> "[" \o PyReprElems(x.e, 1) \o "]"
      [] x.t = "obj" -> "{" \o PyReprItems(x.f, 1) \o "}"
      [] OTHER -> "None"

\* Python: str(x) of a mapped value
PyStr(x) == IF x.t = "str" THEN x.s ELSE PyRepr(x)

RECURSIVE PlaceholderSub(_, _, _, _)

PlaceholderSubAtBlanking(re, source_data, s, i, m) ==
    IF m.ok /\ m.len > 0
    THEN (IF Strip(m.g1) \in DOMAIN source_data
          THEN PyStr(source_data[Strip(m.g1)])
          ELSE "")
         \o PlaceholderSub(re, source_data, s, i + m.len)
    ELSE Ch(s, i) \o PlaceholderSub(re, source_data, s, i + 1)

\* replace_match(match), then the rest of the scan
PlaceholderSubAt(re, source_data, s, i, m) ==
    IF m.ok /\ m.len > 0
    THEN (IF Strip(m.g1) \in DOMAIN source_data
          THEN PyStr(source_data[Strip(m.g1)])
          ELSE SubSeq(s, i, i + m.len - 1))
         \o PlaceholderSub(re, source_data, s, i + m.len)
    ELSE Ch(s, i) \o PlaceholderSub(re, source_data, s, i + 1)

\* compiled_pattern.sub(replace_match, value), from position i on
PlaceholderSub(re, source_data, s, i) ==
    IF i > Len(s) THEN ""
    ELSE PlaceholderSubAt(re, source_data, s, i, ReMatchAt(re, s, i))

\* the keys of the context the engine hands to apply
ContextSources == {"material_map", "csv_row_data", "item"}

\* the dict under key 'item' as a map from its keys
ItemAsMap(item) ==
    [k \in { item.f[i].k : i \in 1..Len(item.f) } |-> DictGet(item, k, JNull)]

\* context.get(self.source) when it is a dict; the empty map stands for a
\* value that is None or no dict, where apply returns the value as well
SourceData(source, context) ==
    CASE source = "material_map" -> context.material_map
      [] source = "csv_row_data" -> context.csv_row_data
      [] OTHER -> IF context.item.t = "obj" THEN ItemAsMap(context.item)
                  ELSE [k \in {} |-> JNull]

\* RegexPlaceholderRule.apply, where it returns
PlaceholderApply(rule, value, context) ==
    IF ~rule.has_pattern THEN value
    ELSE IF ~IsStr(rule.source) \/ rule.source.s \notin ContextSources THEN value
    ELSE PlaceholderSub(rule.re, SourceData(rule.source.s, context), value, 1)

\* rule.apply(value, context) where it returns, dispatched on the rule's
\* class
Apply(rule, value, context) ==
    CASE rule.kind = "material_map_lookup" -> LookupApply(rule, value, context)
      [] rule.kind = "regex" -> RegexApply(rule, value, context)
      [] rule.kind = "regex_placeholder" -> PlaceholderApply(rule, value, context)

\* rule.apply(value, context) raises.  MaterialMapLookupRule.apply calls
\* item.get before its try block, and iterates self.lookup_methods outside
\* it: a context whose 'item' is no dict, and lookup_methods that are a
\* number, a boolean or null, raise.  RegexPlaceholderRule.apply calls
\* context.get(self.source) before its try block: a source that is a list
\* or a dict is unhashable and raises.  RegexRule.apply does not raise.
ApplyRaises(rule, value, context) ==
    CASE rule.kind = "material_map_lookup" ->
            /\ value # ""
            /\ \/ context.item.t # "obj"
               \/ DOMAIN context.material_map # {} /\ ~rule.methods_iterable
      [] rule.kind = "regex_placeholder" ->
            rule.has_pattern /\ rule.source.t \in {"arr", "obj"}
      [] OTHER -> FALSE

ReturnedValue(v) == [raised |-> FALSE, value |-> v]
RaisedError == [raised |-> TRUE, value |-> JNull]

\* how rule.apply(value, context) ends for any JSON value: every rule
\* returns a value that is no string as it is
ApplyOutcome(rule, value, context) ==
    IF ~IsStr(value) THEN ReturnedValue(value)
    ELSE IF ApplyRaises(rule, value.s, context) THEN RaisedError
    ELSE ReturnedValue(JStr(Apply(rule, value.s, context)))

-----------------------------------------------------------------------------
(* Rule configuration: config.py *)

\* config_path is None
NoConfig == [t |-> "none"]

\* x.get('priority', 999), the sort key
RulePriority(rule) == DictGet(rule, "priority", JNum(DefaultPriority))

\* the characters of rule identifiers and priorities in code point order
CodePointOrder == DigitAlphabet \o UpperAlphabet \o "_" \o LowerAlphabet

RECURSIVE StrLess(_, _)
\* Python: a < b on strings
StrLess(a, b) ==
    IF b = "" THEN FALSE
    ELSE IF a = "" THEN TRUE
    ELSE IF Ch(a, 1) = Ch(b, 1) THEN StrLess(Tail(a), Tail(b))
    ELSE Find(CodePointOrder, Ch(a, 1)) < Find(CodePointOrder, Ch(b, 1))

IsNumber(x) == x.t \in {"num", "bool"}

\* a number as Python compares it: True is 1 and False is 0
NumberOf(x) == IF x.t = "num" THEN x.n ELSE IF x.b THEN 1 ELSE 0

\* Python: a < b on two sort keys that can be compared
PriorityLess(a, b) ==
    IF IsNumber(a) THEN NumberOf(a) < NumberOf(b) ELSE StrLess(a.s, b.s)

\* sorted() compares every key with another one when there are two or
\* more: numbers compare with numbers and strings with strings; None and
\* dicts compare with nothing, and a number does not compare with a string
Sortable(rules) ==
    \/ Len(rules) <= 1
    \/ \A i \in 1..Len(rules) : IsNumber(RulePriority(rules[i]))
    \/ \A i \in 1..Len(rules) : IsStr(RulePriority(rules[i]))

RECURSIVE InsertByPriorityUnstable(_, _)
InsertByPriorityUnstable(sorted, rule) ==
    IF sorted = <<>> THEN <<rule>>
    ELSE IF ~PriorityLess(RulePriority(Head(sorted)), RulePriority(rule))
    THEN <<rule>> \o sorted
    ELSE <<Head(sorted)>> \o InsertByPriorityUnstable(Tail(sorted), rule)

RECURSIVE InsertByPriority(_, _)
\* sorted() is stable: a rule goes behind the rules of the same priority
InsertByPriority(sorted, rule) ==
    IF sorted = <<>> THEN <<rule>>
    ELSE IF PriorityLess(RulePriority(rule), RulePriority(Head(sorted)))
    THEN <<rule>> \o sorted
    ELSE <<Head(sorted)>> \o InsertByPriority(Tail(sorted), rule)

RECURSIVE SortByPriority(_, _, _)
\* sorted(rules, key=lambda x: x.get('priority', 999))
SortByPriority(rules, i, sorted) ==
    IF i > Len(rules) THEN sorted
    ELSE SortByPriority(rules, i + 1, InsertByPriority(sorted, rules[i]))

\* [rule for rule in raw if isinstance(rule, dict) and rule.get('enabled', True)]
EnabledOnly(raw) ==
    SelectSeq(raw, LAMBDA rule : rule.t = "obj" /\ Truthy(DictGet(rule, "enabled", JTrue)))

SortedEnabled(raw) == SortByPriority(EnabledOnly(raw), 1, <<>>)

\* RuleConfig._extract_and_sort_rules
ExtractAndSortRules(data) ==
    [ok |-> TRUE, error |-> "",
     path_rules |-> SortedEnabled(DictGet(data, "path_rules", JArr(<<>>)).e),
     text_rules |-> SortedEnabled(DictGet(data, "text_rules", JArr(<<>>)).e),
     system_paths_to_ignore |-> DictGet(data, "system_paths_to_ignore", JArr(<<>>)).e,
     json_content_keys |-> DictGet(data, "json_content_keys", JArr(<<JStr("content")>>)).e]

\* the configuration used when no path is given
EmptyRuleConfig ==
    [ok |-> TRUE, error |-> "", path_rules |-> <<>>, text_rules |-> <<>>,
     system_paths_to_ignore |-> <<>>, json_content_keys |-> <<JStr("content")>>]

\* the constructor raised: error is the exception's class
LoadRaised(error) ==
    [ok |-> FALSE, error |-> error, path_rules |-> <<>>, text_rules |-> <<>>,
     system_paths_to_ignore |-> <<>>, json_content_keys |-> <<>>]

\* where ConfigError is raised
ConfigErrorRaised == LoadRaised("ConfigError")

\* the file at config_path: no file there, a file that cannot be read, a
\* file with this text; any other value of config_data is what json.load
\* returns for the file
MissingFile == [t |-> "missing"]
UnreadableFile == [t |-> "unreadable"]
FileText(s) == [t |-> "text", s |-> s]

\* RuleConfig._validate_config_structure: no ConfigError is raised
ConfigStructureValid(data) ==
    /\ DictGet(data, "path_rules", JArr(<<>>)).t = "arr"
    /\ DictGet(data, "text_rules", JArr(<<>>)).t = "arr"
    /\ DictGet(data, "system_paths_to_ignore", JArr(<<>>)).t = "arr"
    /\ DictGet(data, "json_content_keys", JArr(<<>>)).t = "arr"

\* sorted() of the enabled rules raises TypeError
SortRaises(data) ==
    \/ ~Sortable(EnabledOnly(DictGet(data, "path_rules", JArr(<<>>)).e))
    \/ ~Sortable(EnabledOnly(DictGet(data, "text_rules", JArr(<<>>)).e))

\* _validate_config_structure and _extract_and_sort_rules on what json.load
\* returned: config_data.get raises AttributeError on anything but a dict
ValidateAndExtract(data) ==
    IF data.t # "obj" THEN LoadRaised("AttributeError")
    ELSE IF ~ConfigStructureValid(data) THEN ConfigErrorRaised
    ELSE IF SortRaises(data) THEN LoadRaised("TypeError")
    ELSE ExtractAndSortRules(data)

\* json.load(f) returned or raised JSONDecodeError
Decoded(parsed) == IF parsed.ok THEN ValidateAndExtract(parsed.v) ELSE ConfigErrorRaised

\* RuleConfig.load_and_validate_config
LoadAndValidateConfig(data) ==
    CASE data.t \in {"missing", "unreadable"} -> ConfigErrorRaised
      [] data.t = "text" -> Decoded(Loads(data.s))
      [] OTHER -> ValidateAndExtract(data)

\* RuleConfig(config_path)
RuleConfig(data) ==
    IF data = NoConfig THEN EmptyRuleConfig ELSE LoadAndValidateConfig(data)

RECURSIVE CreateRules(_, _, _)

KeepRule(rule_configs, i, rules, rule_instance) ==
    CreateRules(rule_configs, i + 1,
                IF rule_instance = NoRule THEN rules ELSE Append(rules, rule_instance))

\* the loops of PathMappingEngine._initialize_rules
CreateRules(rule_configs, i, rules) ==
    IF i > Len(rule_configs) THEN rules
    ELSE KeepRule(rule_configs, i, rules, CreateRule(rule_configs[i]))

EngineOf(config) ==
    [ok |-> config.ok,
     error |-> config.error,
     config |-> config,
     path_rules |-> CreateRules(config.path_rules, 1, <<>>),
     text_rules |-> CreateRules(config.text_rules, 1, <<>>)]

\* PathMappingEngine(config_path)
NewEngine(data) == EngineOf(RuleConfig(data))

-----------------------------------------------------------------------------
(* The walk over the document: engine.py *)

\* PathMappingEngine._is_system_path
IsSystemPath(eng, path_str) ==
    \E i \in 1..Len(eng.config.system_paths_to_ignore) :
        Contains(path_str, eng.config.system_paths_to_ignore[i].s)

\* one call of rule.apply in a loop over rules: rule r of the list got in
\* and returned out
Step(r, in, out) == [r |-> r, in |-> in, out |-> out]

RECURSIVE PathLoopAll(_, _, _, _, _, _)
PathLoopAll(rules, i, key, processed_value, context, steps) ==
    IF i > Len(rules) THEN [value |-> processed_value, steps |-> steps]
    ELSE IF ~AppliesToKey(rules[i], key)
    THEN PathLoopAll(rules, i + 1, key, processed_value, context, steps)
    ELSE PathLoopAll(rules, i + 1, key, Apply(rules[i], processed_value, context), context,
                     Append(steps, Step(i, processed_value,
                                        Apply(rules[i], processed_value, context))))

RECURSIVE PathLoop(_, _, _, _, _, _)

\* the body of the loop for a rule that applies to the key: break when the
\* rule changed the value
PathStep(rules, i, key, processed_value, context, steps, new_value) ==
    IF new_value # processed_value
    THEN [value |-> new_value,
          steps |-> Append(steps, Step(i, processed_value, new_value))]
    ELSE PathLoop(rules, i + 1, key, processed_value, context,
                  Append(steps, Step(i, processed_value, new_value)))

\* the loop of _process_path_value over self.path_rules, from rule i on; a
\* rule whose apply raises ends the loop
PathLoop(rules, i, key, processed_value, context, steps) ==
    IF i > Len(rules) THEN [value |-> processed_value, steps |-> steps]
    ELSE IF ~AppliesToKey(rules[i], key)
    THEN PathLoop(rules, i + 1, key, processed_value, context, steps)
    ELSE IF ApplyRaises(rules[i], processed_value, context)
    THEN [value |-> processed_value, steps |-> steps]
    ELSE PathStep(rules, i, key, processed_value, context, steps,
                  Apply(rules[i], processed_value, context))

PathResult(r, system) == [value |-> r.value, steps |-> r.steps, system |-> system]

ProcessPathValueUnguarded(eng, key, value, context) ==
    PathResult(PathLoop(eng.path_rules, 1, key, value, context, <<>>),
               IsSystemPath(eng, value))

\* PathMappingEngine._process_path_value
ProcessPathValue(eng, key, value, context) ==
    IF IsSystemPath(eng, value)
    THEN [value |-> value, steps |-> <<>>, system |-> TRUE]
    ELSE PathResult(PathLoop(eng.path_rules, 1, key, value, context, <<>>), FALSE)

RECURSIVE TextLoopFirst(_, _, _, _, _, _)
TextLoopFirst(rules, i, key, current_value, context, steps) ==
    IF i > Len(rules) THEN [value |-> current_value, steps |-> steps]
    ELSE IF ~AppliesToKey(rules[i], key)
    THEN TextLoopFirst(rules, i + 1, key, current_value, context, steps)
    ELSE IF Apply(rules[i], current_value, context) # current_value
    THEN [value |-> Apply(rules[i], current_value, context),
          steps |-> Append(steps, Step(i, current_value,
                                       Apply(rules[i], current_value, context)))]
    ELSE TextLoopFirst(rules, i + 1, key, current_value, context,
                       Append(steps, Step(i, current_value, current_value)))

RECURSIVE TextLoop(_, _, _, _, _, _)

\* the body of the loop for a rule that applies to the key: the next rule
\* works on what this one returned
TextStep(rules, i, key, current_value, context, steps, new_value) ==
    TextLoop(rules, i + 1, key, new_value, context,
             Append(steps, Step(i, current_value, new_value)))

\* the loop of _process_text_value over self.text_rules, from rule i on; a
\* rule whose apply raises is passed over
TextLoop(rules, i, key, current_value, context, steps) ==
    IF i > Len(rules) THEN [value |-> current_value, steps |-> steps]
    ELSE IF ~AppliesToKey(rules[i], key)
    THEN TextLoop(rules, i + 1, key, current_value, context, steps)
    ELSE IF ApplyRaises(rules[i], current_value, context)
    THEN TextLoop(rules, i + 1, key, current_value, context, steps)
    ELSE TextStep(rules, i, key, current_value, context, steps,
                  Apply(rules[i], current_value, context))

\* value.strip().startswith(("{", "["))
LooksLikeJson(value) ==
    StartsWith(Strip(value), "{") \/ StartsWith(Strip(value), "[")

IsJsonContentKey(eng, key) ==
    \E i \in 1..Len(eng.config.json_content_keys) :
        eng.config.json_content_keys[i] = JStr(key)

TextResult(text_in, nested, sub, r) ==
    [value |-> r.value, steps |-> r.steps, nested |-> nested,
     text_in |-> text_in, sub |-> sub]

\* part 2 of _process_text_value
ApplyTextRules(eng, key, processed_value, context, nested, sub) ==
    TextResult(processed_value, nested, sub,
               TextLoop(eng.text_rules, 1, key, processed_value, context, <<>>))

RECURSIVE ProcessItem(_, _, _, _, _)

\* json.dumps of the processed nested data, then the text rules with the
\* caller's context: the nested walk worked on nested_context, a copy
ReEncoded(eng, key, context, processed_nested) ==
    ApplyTextRules(eng, key, Dumps(processed_nested.node), context, TRUE,
                   processed_nested.trail)

NestedContentAsText(eng, key, value, context, depth, json, nested_data) ==
    ApplyTextRules(eng, key, value, context, FALSE, <<>>)

\* part 1 of _process_text_value once json.loads returned or raised
NestedContent(eng, key, value, context, depth, json, nested_data) ==
    IF nested_data.ok
    THEN ReEncoded(eng, key, context,
                   ProcessItem(eng, nested_data.v, context, depth + 1, json + 1))
    ELSE ApplyTextRules(eng, key, value, context, FALSE, <<>>)

ProcessTextValueLeavingBroken(eng, key, value, context, depth, json) ==
    IF IsJsonContentKey(eng, key) /\ LooksLikeJson(value) /\ ~Loads(value).ok
    THEN TextResult(value, FALSE, <<>>, [value |-> value, steps |-> <<>>])
    ELSE IF IsJsonContentKey(eng, key) /\ LooksLikeJson(value)
    THEN NestedContent(eng, key, value, context, depth, json, Loads(value))
    ELSE ApplyTextRules(eng, key, value, context, FALSE, <<>>)

\* PathMappingEngine._process_text_value
ProcessTextValue(eng, key, value, context, depth, json) ==
    IF IsJsonContentKey(eng, key) /\ LooksLikeJson(value)
    THEN NestedContent(eng, key, value, context, depth, json, Loads(value))
    ELSE ApplyTextRules(eng, key, value, context, FALSE, <<>>)

\* what the walk did to one string field of the dict holder; item is what
\* the context had under 'item' when the rules were called
Visit(key, raw, holder, context, depth, json, path, text) ==
    [key |-> key, raw |-> raw, holder |-> holder, item |-> context.item,
     system |-> path.system, path_steps |-> path.steps, path_out |-> path.value,
     nested |-> text.nested, text_in |-> text.text_in,
     text_steps |-> text.steps, text_out |-> text.value,
     depth |-> depth, json |-> json]

RECURSIVE ProcessFields(_, _, _, _, _, _, _)

StringDone(eng, item, i, context, depth, json, done, path, text) ==
    ProcessFields(eng, item, i + 1, context, depth, json,
                  [node |-> JObj(Append(done.node.f, KV(item.f[i].k, JStr(text.value)))),
                   trail |-> done.trail
                             \o <<Visit(item.f[i].k, item.f[i].v.s, item, context, depth,
                                        json, path, text)>>
                             \o text.sub,
                   original |-> done.original])

\* the path rules first, then the text rules on what they returned
StringField(eng, item, i, context, depth, json, done, path) ==
    StringDone(eng, item, i, context, depth, json, done, path,
               ProcessTextValue(eng, item.f[i].k, path.value, context, depth, json))

\* the loop goes on with the context dict as the call for the child left it
ChildDone(eng, item, i, context, depth, json, done, child) ==
    ProcessFields(eng, item, i + 1, child.context, depth, json,
                  [node |-> JObj(Append(done.node.f, KV(item.f[i].k, child.node))),
                   trail |-> done.trail \o child.trail,
                   original |-> done.original])

KeepItem(context, original_item_context) == context

\* context['item'] = original_item_context if original_item_context is not
\* None else {}
RestoreItem(context, original_item_context) ==
    [context EXCEPT !.item = IF original_item_context.t = "null" THEN EmptyDict
                             ELSE original_item_context]

\* what a call of _process_item returns, and the context dict after it
Processed(node, visits, context) == [node |-> node, trail |-> visits, context |-> context]

ProcessFieldsDroppingOthers(eng, item, i, context, depth, json, done) ==
    IF i > Len(item.f)
    THEN Processed(done.node, done.trail, RestoreItem(context, done.original))
    ELSE IF IsStr(item.f[i].v)
    THEN StringField(eng, item, i, context, depth, json, done,
                     ProcessPathValue(eng, item.f[i].k, item.f[i].v.s, context))
    ELSE IF item.f[i].v.t \in {"obj", "arr"}
    THEN ChildDone(eng, item, i, context, depth, json, done,
                   ProcessItem(eng, item.f[i].v, context, depth + 1, json))
    ELSE ProcessFields(eng, item, i + 1, context, depth, json, done)

\* the loop of _process_item over item.items(), from item i on, and the
\* restoring of context['item'] after it
ProcessFields(eng, item, i, context, depth, json, done) ==
    IF i > Len(item.f)
    THEN Processed(done.node, done.trail, RestoreItem(context, done.original))
    ELSE IF IsStr(item.f[i].v)
    THEN StringField(eng, item, i, context, depth, json, done,
                     ProcessPathValue(eng, item.f[i].k, item.f[i].v.s, context))
    ELSE IF item.f[i].v.t \in {"obj", "arr"}
    THEN ChildDone(eng, item, i, context, depth, json, done,
                   ProcessItem(eng, item.f[i].v, context, depth + 1, json))
    ELSE ProcessFields(eng, item, i + 1, context, depth, json,
                       [node |-> JObj(Append(done.node.f, item.f[i])),
                        trail |-> done.trail,
                        original |-> done.original])

RECURSIVE ProcessElems(_, _, _, _, _, _, _)

\* the next element is processed with the context dict as the call for
\* this one left it
ElemDone(eng, item, i, context, depth, json, done, elem) ==
    ProcessElems(eng, item, i + 1, elem.context, depth, json,
                 [node |-> JArr(Append(done.node.e, elem.node)),
                  trail |-> done.trail \o elem.trail])

ProcessElemsRewritingStrings(eng, item, i, context, depth, json, done) ==
    IF i > Len(item.e) THEN Processed(done.node, done.trail, context)
    ELSE IF IsStr(item.e[i])
    THEN ElemDone(eng, item, i, context, depth, json, done,
                  Processed(JStr(ProcessPathValue(eng, "*", item.e[i].s, context).value),
                            <<>>, context))
    ELSE ElemDone(eng, item, i, context, depth, json, done,
                  ProcessItem(eng, item.e[i], context, depth + 1, json))

\* [self._process_item(elem, context) for elem in item]
ProcessElems(eng, item, i, context, depth, json, done) ==
    IF i > Len(item.e) THEN Processed(done.node, done.trail, context)
    ELSE ElemDone(eng, item, i, context, depth, json, done,
                  ProcessItem(eng, item.e[i], context, depth + 1, json))

\* PathMappingEngine._process_item.  The context is one dict shared by the
\* calls: a dict keeps what was under 'item' (original_item_context), puts
\* itself there for its loop and puts the kept value back after it
ProcessItem(eng, item, context, depth, json) ==
    CASE item.t = "obj" ->
            ProcessFields(eng, item, 1, [context EXCEPT !.item = item], depth, json,
                          [node |-> EmptyDict, trail |-> <<>>, original |-> context.item])
      [] item.t = "arr" ->
            ProcessElems(eng, item, 1, context, depth, json,
                         [node |-> JArr(<<>>), trail |-> <<>>])
      [] OTHER -> Processed(item, <<>>, context)

\* the initial_context of process_json
InitialContext(mmap, row) == [material_map |-> mmap, csv_row_data |-> row, item |-> EmptyDict]

\* PathMappingEngine.process_json
ProcessJson(eng, data, mmap, row) ==
    IF data.t \notin {"obj", "arr"} THEN Processed(data, <<>>, InitialContext(mmap, row))
    ELSE ProcessItem(eng, data, InitialContext(mmap, row), 0, 0)

-----------------------------------------------------------------------------
(* The engine on bounded inputs *)

\* the longest list of path rules, and of text rules, in a configuration
MaxRules == 2

RegexRuleConfig(id, target_keys, pattern, replacement) ==
    <<KV("id", JStr(id)), KV("type", JStr("regex")),
      KV("target_keys", JArr(target_keys)),
      KV("pattern", JStr(pattern)), KV("replacement", JStr(replacement))>>

LookupRuleConfig ==
    JObj(<<KV("id", JStr("lookup")), KV("type", JStr("material_map_lookup")),
           KV("target_keys", JArr(<<JStr("path")>>)),
           KV("lookup_methods",
              JArr(<<JObj(<<KV("method", JStr("extra_info")),
                            KV("pattern", JStr("^(\\w+)\\."))>>),
                     JObj(<<KV("method", JStr("path_stem"))>>)>>))>>)

\* the lookup rule has no priority and gets the default one
PathRuleConfigs ==
    { LookupRuleConfig,
      JObj(RegexRuleConfig("pAB", <<JStr("*")>>, "A", "B") \o <<KV("priority", JNum(2))>>),
      JObj(RegexRuleConfig("pBC", <<JStr("k"), JStr("path")>>, "B", "C")
           \o <<KV("priority", JNum(2))>>) }

PlaceholderRuleConfig ==
    JObj(<<KV("id", JStr("ph")), KV("type", JStr("regex_placeholder")),
           KV("target_keys", JArr(<<JStr("*")>>)), KV("priority", JNum(3)),
           KV("pattern", JStr("##(\\w+)##")), KV("source", JStr("material_map"))>>)

TextRuleConfigs ==
    { JObj(RegexRuleConfig("tAB", <<JStr("k")>>, "A", "B") \o <<KV("priority", JNum(1))>>),
      JObj(RegexRuleConfig("tBC", <<JStr("k"), JStr("content")>>, "B", "C")
           \o <<KV("priority", JNum(2))>>),
      PlaceholderRuleConfig }

\* the lists of at most n distinct members of S
ListsOf(S, n) ==
    UNION { { q \in [1..m -> S] : \A a, b \in 1..m : a # b => q[a] # q[b] } : m \in 0..n }

ConfigDocuments ==
    { JObj(<<KV("path_rules", JArr(p)), KV("text_rules", JArr(t))>> \o ignore) :
        p \in ListsOf(PathRuleConfigs, MaxRules),
        t \in ListsOf(TextRuleConfigs, MaxRules),
        ignore \in { <<>>, <<KV("system_paths_to_ignore", JArr(<<JStr("SYS")>>))>> } }

FieldValues == {"A", "SYS/AB", "##foo##B"}
PathValues == {"/t/a.png", "/SYS/b.png", "A"}

FlatDocument(k, path) ==
    JObj(<<KV("k", JStr(k)), KV("path", JStr(path)), KV("n", JNum(1))>>)

NestedDocument(k) ==
    JObj(<<KV("materials",
              JArr(<<JObj(<<KV("extra_info", JStr("b.png")), KV("path", JStr("/t/a.png")),
                            KV("inner", JObj(<<KV("k", JStr(k)), KV("on", JBool(FALSE)),
                                               KV("none", JNull)>>))>>),
                     JStr("A"), JNull, JNum(5), JBool(TRUE)>>))>>)

ContentDocument(k) ==
    JObj(<<KV("k", JStr("A")),
           KV("content",
              JStr("{\"k\": \"" \o k \o "\",\"n\":[{\"path\":\"/t/a.png\"}]}"))>>)

BrokenContentDocument == JObj(<<KV("content", JStr("{AB"))>>)

ListContentDocument == JArr(<<JObj(<<KV("content", JStr(" [\"A\",{\"k\":\"A\"}]"))>>)>>)

\* JSON content that holds JSON content itself
DoubleContentDocument == JObj(<<KV("content", JStr("{\"content\":\"[ 1 ]\"}"))>>)

\* string fields that come after a child object, after an array of objects
\* and after JSON content of the same object
SiblingsDocument ==
    JObj(<<KV("extra_info", JStr("a.png")),
           KV("inner", JObj(<<KV("extra_info", JStr("b.png")), KV("k", JStr("A"))>>)),
           KV("path", JStr("/t/zz.png")),
           KV("list", JArr(<<JObj(<<KV("extra_info", JStr("b.png"))>>)>>)),
           KV("k", JStr("A")),
           KV("content", JStr("{\"extra_info\":\"b.png\"}")),
           KV("z", JStr("A"))>>)

Documents ==
    { FlatDocument(k, path) : k \in FieldValues, path \in PathValues }
    \cup { NestedDocument(k) : k \in FieldValues }
    \cup { ContentDocument(k) : k \in FieldValues }
    \cup { BrokenContentDocument, ListContentDocument, DoubleContentDocument,
           SiblingsDocument }

EmptyMap == [x \in {} |-> JNull]

MaterialMaps ==
    { EmptyMap,
      [x \in {"a", "b", "foo"} |->
          CASE x = "a" -> JStr("/c/A.png") [] x = "b" -> JStr("/c/y.png") [] OTHER -> JStr("A")] }

CsvRows == { EmptyMap }

\* the value of the variables a specification does not use
Off == "off"

ResolverOff ==
    /\ materials = Off /\ csv_row_data = Off /\ template_material_base = Off
    /\ change_material_base = Off /\ fs_files = Off /\ material_map = Off
    /\ processed_placeholders = Off /\ mat_idx = Off /\ resolved = Off
    /\ rpc = Off /\ update_result = Off

EngineOff ==
    /\ config_data = Off /\ epc = Off
    /\ engine = Off /\ json_data = Off /\ ctx_material_map = Off /\ ctx_csv_row = Off
    /\ processed_data = Off /\ trail = Off

RuleOff ==
    /\ factory_config = Off /\ created_rule = Off /\ applied_value = Off
    /\ applied_context = Off /\ apply_result = Off /\ fpc = Off

WorkerOff ==
    /\ batch_input = Off /\ csv_data = Off /\ row_idx = Off /\ is_cancelled = Off
    /\ processed_count = Off /\ error_count = Off /\ cycle = Off /\ finished = Off
    /\ signals = Off /\ generated_project_names = Off
    /\ wpc = Off

HeapOff == py_heap = Off /\ py_call = Off /\ py_result = Off /\ hpc = Off

OutsideResolverOff == RuleOff /\ WorkerOff /\ HeapOff
OutsideEngineOff == ResolverOff /\ OutsideResolverOff

EngineInit ==
    /\ config_data \in ConfigDocuments \cup {NoConfig}
    /\ epc = "new"
    /\ engine = Off /\ json_data = Off /\ ctx_material_map = Off /\ ctx_csv_row = Off
    /\ processed_data = Off /\ trail = Off
    /\ OutsideEngineOff

\* engine = PathMappingEngine(config_path)
Construct ==
    /\ epc = "new"
    /\ engine' = NewEngine(config_data)
    /\ epc' = "ready"
    /\ UNCHANGED <<config_data, json_data, ctx_material_map, ctx_csv_row,
                   processed_data, trail, outsideEngine>>

Returned(r) == processed_data' = r.node /\ trail' = r.trail

\* processed_data = engine.process_json(json_data, material_map, csv_row_data)
Process ==
    /\ epc = "ready" /\ engine.ok
    /\ \E d \in Documents, m \in MaterialMaps, row \in CsvRows :
          /\ json_data' = d /\ ctx_material_map' = m /\ ctx_csv_row' = row
          /\ Returned(ProcessJson(engine, d, m, row))
    /\ epc' = "done"
    /\ UNCHANGED <<config_data, engine, outsideEngine>>

EngineNext == Construct \/ Process

SpecEngine == EngineInit /\ [][EngineNext]_vars

(* The engine on rules with every form of target_keys *)

\* what a rule configuration may have under target_keys: nothing, null, a
\* string, an object, and lists that are empty, name "*", name k, name K,
\* or hold a number
TargetKeyForms ==
    { <<>>,
      <<KV("target_keys", JNull)>>,
      <<KV("target_keys", JStr("k"))>>,
      <<KV("target_keys", JStr("*"))>>,
      <<KV("target_keys", JObj(<<KV("k", JNum(1))>>))>>,
      <<KV("target_keys", JArr(<<>>))>>,
      <<KV("target_keys", JArr(<<JStr("*")>>))>>,
      <<KV("target_keys", JArr(<<JStr("k")>>))>>,
      <<KV("target_keys", JArr(<<JStr("K"), JStr("path")>>))>>,
      <<KV("target_keys", JArr(<<JNum(1)>>))>> }

\* a regex rule with one of the forms
KeyedRule(id, pattern, replacement, form) ==
    JObj(<<KV("id", JStr(id)), KV("type", JStr("regex")),
           KV("pattern", JStr(pattern)), KV("replacement", JStr(replacement))>> \o form)

\* the text rule replaces A by B, or doubles every A
KeyedTextRules(form) ==
    { KeyedRule("AB", "A", "B", form), KeyedRule("AA", "A", "AA", form) }

\* one path rule (p to q) and one text rule
KeyedConfigDocuments ==
    { JObj(<<KV("path_rules", JArr(<<KeyedRule("pq", "p", "q", pform)>>)),
             KV("text_rules", JArr(<<text_rule>>))>>) :
        pform \in TargetKeyForms,
        text_rule \in UNION { KeyedTextRules(tform) : tform \in TargetKeyForms } }

KeyedInit ==
    /\ config_data \in KeyedConfigDocuments
    /\ epc = "new"
    /\ engine = Off /\ json_data = Off /\ ctx_material_map = Off /\ ctx_csv_row = Off
    /\ processed_data = Off /\ trail = Off
    /\ OutsideEngineOff

SpecKeyed == KeyedInit /\ [][EngineNext]_vars

-----------------------------------------------------------------------------
(* Loading rule configurations: the constructor on the files a user may     *)
(* hand it                                                                   *)

\* a regex rule for every key, with these fields besides
OrderedRule(id, fields) == JObj(RegexRuleConfig(id, <<JStr("*")>>, "A", "B") \o fields)

\* entries that differ in priority and enabled; one is no object
OrderingCatalogue ==
    { OrderedRule("p2a", <<KV("priority", JNum(2))>>),
      OrderedRule("p2b", <<KV("priority", JNum(2))>>),
      OrderedRule("pdef", <<>>),
      OrderedRule("p1", <<KV("priority", JNum(1)), KV("enabled", JBool(TRUE))>>),
      OrderedRule("p1000", <<KV("priority", JNum(1000))>>),
      OrderedRule("off", <<KV("priority", JNum(1)), KV("enabled", JBool(FALSE))>>),
      OrderedRule("nul", <<KV("priority", JNum(3)), KV("enabled", JNull)>>),
      OrderedRule("high", <<KV("priority", JStr("high"))>>),
      JStr("p2a") }

PlaceholderWith(id, fields) ==
    JObj(<<KV("id", JStr(id)), KV("type", JStr("regex_placeholder")),
           KV("target_keys", JArr(<<JStr("*")>>))>> \o fields)

\* entries with and without what their type requires
ValidityCatalogue ==
    { JObj(<<KV("id", JStr("r_nopattern")), KV("type", JStr("regex")),
             KV("target_keys", JArr(<<JStr("*")>>)), KV("replacement", JStr("B"))>>),
      JObj(RegexRuleConfig("r_unparsable", <<JStr("*")>>, "(A", "B")),
      JObj(RegexRuleConfig("r_valid", <<JStr("*")>>, "A", "B")),
      PlaceholderWith("ph_nopattern", <<KV("source", JStr("material_map"))>>),
      PlaceholderWith("ph_nosource", <<KV("pattern", JStr("##(\\w+)##"))>>),
      PlaceholderWith("ph_nogroup", <<KV("pattern", JStr("##x##")),
                                      KV("source", JStr("material_map"))>>),
      PlaceholderWith("ph_unparsable", <<KV("pattern", JStr("##(\\w+##")),
                                         KV("source", JStr("material_map"))>>),
      PlaceholderWith("ph_valid", <<KV("pattern", JStr("##(\\w+)##")),
                                    KV("source", JStr("csv_row_data"))>>),
      JObj(<<KV("id", JStr("no_type")), KV("target_keys", JArr(<<JStr("*")>>))>>),
      JObj(<<KV("id", JStr("unknown")), KV("type", JStr("glob")),
             KV("target_keys", JArr(<<JStr("*")>>))>>) }

Reverse(q) == [i \in 1..Len(q) |-> q[Len(q) + 1 - i]]

\* the documents with one list as path_rules and, reversed, as text_rules
RuleListDocuments(catalogue) ==
    { JObj(<<KV("path_rules", JArr(q)), KV("text_rules", JArr(Reverse(q)))>>) :
        q \in ListsOf(catalogue, MaxRules) }

\* no file, files that are not JSON, JSON that is no object, fields of the
\* wrong type, another version
OddFiles ==
    { MissingFile, UnreadableFile, FileText(""), FileText("{"), FileText("[]"),
      FileText("5"), FileText("{}"),
      FileText("{\"version\":\"2.0\"}"),
      FileText("{\"version\":\"2.0\",\"path_rules\":[]}"),
      FileText("{\"path_rules\":5}"),
      FileText("{\"text_rules\":{}}"),
      FileText("{\"system_paths_to_ignore\":\"SYS\"}"),
      FileText("{\"json_content_keys\":\"content\"}"),
      FileText("{\"json_content_keys\":[\"content\"],\"path_rules\":null}") }

LoadDocuments ==
    RuleListDocuments(OrderingCatalogue) \cup RuleListDocuments(ValidityCatalogue)
    \cup OddFiles \cup {NoConfig}

ConfigInit ==
    /\ config_data \in LoadDocuments
    /\ epc = "new"
    /\ engine = Off /\ json_data = Off /\ ctx_material_map = Off /\ ctx_csv_row = Off
    /\ processed_data = Off /\ trail = Off
    /\ OutsideEngineOff

ConfigNext == Construct

SpecConfig == ConfigInit /\ [][ConfigNext]_vars

-----------------------------------------------------------------------------
(* One rule: create_rule on a rule configuration, then apply on a value and *)
(* a context                                                                *)

\* the longest list of lookup methods of a rule
MaxMethods == 2

Method(name) == JObj(<<KV("method", JStr(name))>>)

\* lookup methods: the four derivations, extra_info with its default and
\* with a configured pattern, an unknown method, and an entry that is no
\* object
MethodCatalogue ==
    { Method("extra_info"),
      JObj(<<KV("method", JStr("extra_info")), KV("pattern", JStr("^(\\w+)\\."))>>),
      Method("path_stem"),
      JObj(<<KV("method", JStr("field_value")), KV("field", JStr("name"))>>),
      Method("type_and_stem"),
      Method("glob"),
      JStr("path_stem") }

LookupWith(lookup_methods) ==
    JObj(<<KV("id", JStr("lookup")), KV("type", JStr("material_map_lookup")),
           KV("target_keys", JArr(<<JStr("*")>>)),
           KV("lookup_methods", lookup_methods)>>)

\* every list of at most MaxMethods methods, and lookup_methods that are no
\* list
LookupRules ==
    { LookupWith(JArr(q)) : q \in UNION { [1..n -> MethodCatalogue] : n \in 0..MaxMethods } }
    \cup { LookupWith(x) : x \in { JNum(5), JNull, JBool(TRUE), JStr("path_stem"),
                                    Method("path_stem") } }

PlaceholderFrom(pattern, source) ==
    JObj(<<KV("id", JStr("ph")), KV("type", JStr("regex_placeholder")),
           KV("target_keys", JArr(<<JStr("*")>>)),
           KV("pattern", JStr(pattern)), KV("source", source)>>)

PlaceholderRules ==
    { PlaceholderFrom(pattern, source) :
         pattern \in { "##(\\w+)##", "##([^#]+)##" },
         source \in { JStr("material_map"), JStr("csv_row_data"), JStr("item"),
                      JStr("other"), JNum(5), JArr(<<JStr("material_map")>>) } }
    \cup { PlaceholderWith("ph_nopattern", <<KV("source", JStr("material_map"))>>) }

RegexRules ==
    { JObj(RegexRuleConfig("rAB", <<JStr("*")>>, "A", "B")),
      JObj(RegexRuleConfig("rGroup", <<JStr("*")>>, "##(\\w+)##", "<\\1>")),
      JObj(RegexRuleConfig("rNoGroup", <<JStr("*")>>, "A", "\\1")),
      JObj(RegexRuleConfig("rBad", <<JStr("*")>>, "(A", "B")),
      JObj(RegexRuleConfig("rExample", <<JStr("*")>>, "(\\d+)\\.png", "img_\\1.jpg")),
      JObj(RegexRuleConfig("rNamed", <<JStr("*")>>, "(\\d+)\\.png", "\\g<1>\\.\\\\")),
      JObj(RegexRuleConfig("rSecond", <<JStr("*")>>, "(\\d+)\\.png", "img_\\2.jpg")),
      JObj(RegexRuleConfig("rEscape", <<JStr("*")>>, "A", "B\\q")),
      JObj(RegexRuleConfig("rEnd", <<JStr("*")>>, "A", "B\\")),
      JObj(<<KV("id", JStr("rNumber")), KV("type", JStr("regex")),
             KV("target_keys", JArr(<<JStr("*")>>)), KV("pattern", JStr("A")),
             KV("replacement", JNum(5))>>),
      JObj(<<KV("id", JStr("rDelete")), KV("type", JStr("regex")),
             KV("target_keys", JArr(<<JStr("*")>>)), KV("pattern", JStr("A"))>>) }

RuleCatalogue == LookupRules \cup PlaceholderRules \cup RegexRules

\* the values handed to apply: paths, text with placeholders, the empty
\* string, and values that are no strings
AppliedValues ==
    { JStr("/o/image/a.png"), JStr(""), JStr("A"), JStr("5.png"), JStr("A5.png 12.pngA"),
      JStr("##foo## ## a ## ##zz####a##"), JNum(5), JNull }

\* the dict under 'item': the object that holds the value, or what a caller
\* of apply may put there
AppliedItems ==
    { JObj(<<KV("extra_info", JStr("img.png")), KV("name", JStr("nm")),
             KV("type", JStr("photo")), KV("a", JArr(<<JNum(1), JStr("x")>>))>>),
      JObj(<<KV("extra_info", JStr("img\\x")), KV("foo", JObj(<<KV("k", JTrue)>>))>>),
      JObj(<<>>),
      JNull }

AppliedMaps ==
    { EmptyMap,
      [x \in {"a", "img", "nm"} |->
          CASE x = "a" -> JStr("/c/A.png") [] x = "img" -> JStr("/c/I.png")
            [] OTHER -> JNum(7)],
      [x \in {"img", "foo"} |-> IF x = "img" THEN JStr("/c/I.png") ELSE JBool(TRUE)] }

AppliedRows ==
    { EmptyMap, [x \in {"foo", "a"} |-> IF x = "foo" THEN JStr("F") ELSE JNull] }

AppliedContexts ==
    { [material_map |-> m, csv_row_data |-> row, item |-> item] :
         m \in AppliedMaps, row \in AppliedRows, item \in AppliedItems }

RuleInit ==
    /\ factory_config \in RuleCatalogue
    /\ fpc = "config"
    /\ created_rule = Off /\ applied_value = Off /\ applied_context = Off
    /\ apply_result = Off
    /\ EngineOff /\ ResolverOff /\ WorkerOff /\ HeapOff

\* created_rule = create_rule(factory_config)
Create ==
    /\ fpc = "config"
    /\ created_rule' = CreateRule(factory_config)
    /\ fpc' = IF CreateRule(factory_config) = NoRule THEN "dropped" ELSE "created"
    /\ UNCHANGED <<factory_config, applied_value, applied_context, apply_result,
                   outsideRule>>

\* created_rule.apply(applied_value, applied_context)
ApplyRule ==
    /\ fpc = "created"
    /\ \E value \in AppliedValues, context \in AppliedContexts :
          /\ applied_value' = value /\ applied_context' = context
          /\ apply_result' = ApplyOutcome(created_rule, value, context)
    /\ fpc' = "applied"
    /\ UNCHANGED <<factory_config, created_rule, outsideRule>>

RuleNext == Create \/ ApplyRule

SpecRule == RuleInit /\ [][RuleNext]_vars

-----------------------------------------------------------------------------
(* The batch worker: batch_worker.py.  run works in its own thread; cancel  *)
(* is called from the thread of the user interface, at any moment.          *)

\* the longest CSV file, in rows
MaxRows == 2

\* a CSV row by its ProjectName column
CsvRow(project_name) == [ProjectName |-> project_name]

\* the CSV file: absent, without the required header, or its rows
CsvFiles ==
    { [t |-> "missing"], [t |-> "no_header"] }
    \cup { [t |-> "rows", rows |-> q] :
             q \in UNION { [1..n -> { CsvRow(""), CsvRow("p1"), CsvRow("p2") }] :
                             n \in 0..MaxRows } }

\* finished has not been emitted
NoSignal == [success |-> FALSE, message |-> "none"]

\* no row started yet
NoCycle == [row |-> 0, copied |-> FALSE, updated |-> FALSE, saved |-> FALSE, state |-> "none"]

\* the license manager is missing, refuses, agrees, or its call raises
LicenseAnswers == {"none", "denied", "ok", "raises"}

WorkerInit ==
    /\ batch_input \in [license : LicenseAnswers, paths_valid : BOOLEAN, csv : CsvFiles]
    /\ csv_data = <<>>
    /\ row_idx = 0
    /\ is_cancelled = FALSE
    /\ processed_count = 0 /\ error_count = 0
    /\ cycle = NoCycle
    /\ finished = NoSignal
    /\ signals = <<>>
    /\ generated_project_names = <<>>
    /\ wpc = "start"
    /\ EngineOff /\ ResolverOff /\ RuleOff /\ HeapOff

\* the signals of BatchWorker
su == "status_update"
lm == "log_message"
pu == "progress_updated"

\* run emits the signals of the sequence and goes on
Signals(emitted) == signals' = signals \o emitted

\* run returns without a word
ReturnSilently(emitted, success, message) ==
    /\ finished' = finished
    /\ signals' = signals \o emitted
    /\ wpc' = "returned"

\* the signals of the sequence, then self.finished.emit(success, message),
\* and run returns
Emit(emitted, success, message) ==
    /\ finished' = [success |-> success, message |-> message]
    /\ signals' = signals \o emitted \o <<"finished">>
    /\ wpc' = "returned"

\* the handlers at the end of run for what was raised before the loop:
\* status_update, log_message, finished
Caught(emitted, message) == Emit(emitted \o <<su, lm>>, FALSE, message)

\* run up to the loop: license check, _validate_paths, reading the CSV file
Start ==
    /\ wpc = "start"
    /\ CASE batch_input.license \in {"none", "denied"} -> Emit(<<>>, FALSE, "license")
         [] batch_input.license = "raises" -> Caught(<<>>, "unexpected")
         [] batch_input.license = "ok" /\ ~batch_input.paths_valid ->
              Emit(<<su, su>>, FALSE, "paths")
         [] batch_input.license = "ok" /\ batch_input.paths_valid
            /\ batch_input.csv.t # "rows" -> Caught(<<su, su, su>>, "csv")
         [] OTHER -> IF batch_input.csv.rows = <<>>
                     THEN Emit(<<su, su, su, lm>>, TRUE, "")
                     ELSE /\ Signals(<<su, su, su, pu>>)
                          /\ wpc' = "row" /\ finished' = finished
    /\ csv_data' = IF wpc' = "row" THEN batch_input.csv.rows ELSE csv_data
    /\ row_idx' = IF wpc' = "row" THEN 1 ELSE row_idx
    /\ UNCHANGED <<batch_input, is_cancelled, processed_count, error_count, cycle,
                   generated_project_names, outsideWorker>>

\* raise OperationCancelledError, caught at the end of run
Cancelled(emitted) == Emit(emitted \o <<su, lm>>, FALSE, "cancelled")

\* error_count += 1; continue
RowFailed ==
    /\ error_count' = error_count + 1
    /\ row_idx' = row_idx + 1
    /\ wpc' = "row"

\* the head of the loop for the next row: the first look at the flag, and
\* the row without ProjectName
NextRow ==
    /\ wpc = "row" /\ row_idx <= Len(csv_data)
    /\ IF is_cancelled
       THEN Cancelled(<<pu>>) /\ UNCHANGED <<row_idx, error_count, cycle>>
       ELSE IF csv_data[row_idx].ProjectName = ""
       THEN RowFailed /\ Signals(<<pu, lm>>) /\ UNCHANGED <<cycle, finished>>
       ELSE /\ wpc' = "copy"
            /\ Signals(<<pu, su, lm>>)
            /\ cycle' = [NoCycle EXCEPT !.row = row_idx, !.state = "running"]
            /\ UNCHANGED <<row_idx, error_count, finished>>
    /\ UNCHANGED <<batch_input, csv_data, is_cancelled, processed_count,
                   generated_project_names, outsideWorker>>

\* FileSystemHandler.copy_template_project, which gives a path or nothing
CopyTemplate ==
    /\ wpc = "copy"
    /\ \E copied \in BOOLEAN :
          IF copied
          THEN /\ cycle' = [cycle EXCEPT !.copied = TRUE]
               /\ wpc' = "copied"
               /\ UNCHANGED <<row_idx, error_count>>
          ELSE RowFailed /\ cycle' = [cycle EXCEPT !.state = "failed"]
    /\ Signals(<<lm, lm>>)
    /\ UNCHANGED <<batch_input, csv_data, is_cancelled, processed_count, finished,
                   generated_project_names, outsideWorker>>

\* the look at the flag after the copy
AfterCopy ==
    /\ wpc = "copied"
    /\ IF is_cancelled THEN Cancelled(<<>>)
       ELSE wpc' = "update" /\ finished' = finished /\ Signals(<<lm>>)
    /\ UNCHANGED <<batch_input, csv_data, row_idx, is_cancelled, processed_count,
                   error_count, cycle, generated_project_names, outsideWorker>>

\* how the middle of a row cycle ends: the constructor of CapcutHandler
\* raises, update_material_paths returns False, or it returns True
UpdateOutcomes == {"construct_raised", "update_false", "ok"}

\* a failed update goes on to the save
UpdateProjectThenSave ==
    /\ wpc = "update"
    /\ \E outcome \in UpdateOutcomes :
          /\ cycle' = [cycle EXCEPT !.updated = (outcome = "ok")]
          /\ wpc' = "updated"
          /\ Signals(<<lm, su>>)
    /\ UNCHANGED <<batch_input, csv_data, row_idx, error_count, is_cancelled,
                   processed_count, finished, generated_project_names, outsideWorker>>

\* CapcutHandler(...), update_project_name, update_material_paths
UpdateProject ==
    /\ wpc = "update"
    /\ \E outcome \in UpdateOutcomes :
          IF outcome = "ok"
          THEN /\ cycle' = [cycle EXCEPT !.updated = TRUE]
               /\ wpc' = "updated"
               /\ Signals(<<lm, su>>)
               /\ UNCHANGED <<row_idx, error_count>>
          ELSE /\ RowFailed /\ cycle' = [cycle EXCEPT !.state = "failed"]
               /\ Signals(IF outcome = "update_false" THEN <<lm, su, lm>> ELSE <<lm>>)
    /\ UNCHANGED <<batch_input, csv_data, is_cancelled, processed_count, finished,
                   generated_project_names, outsideWorker>>

\* the look at the flag after the documents were changed
AfterUpdate ==
    /\ wpc = "updated"
    /\ IF is_cancelled THEN Cancelled(<<>>)
       ELSE wpc' = "save" /\ finished' = finished /\ Signals(<<lm>>)
    /\ UNCHANGED <<batch_input, csv_data, row_idx, is_cancelled, processed_count,
                   error_count, cycle, generated_project_names, outsideWorker>>

\* capcut_handler.save_changes; processed_count += 1;
\* generated_project_names.append(project_name)
SaveChanges ==
    /\ wpc = "save"
    /\ \E saved \in BOOLEAN :
          IF saved
          THEN /\ cycle' = [cycle EXCEPT !.saved = TRUE, !.state = "done"]
               /\ processed_count' = processed_count + 1
               /\ generated_project_names' =
                     Append(generated_project_names, csv_data[row_idx].ProjectName)
               /\ row_idx' = row_idx + 1
               /\ wpc' = "row"
               /\ UNCHANGED error_count
          ELSE RowFailed /\ cycle' = [cycle EXCEPT !.state = "failed"]
                         /\ UNCHANGED <<processed_count, generated_project_names>>
    /\ Signals(<<lm>>)
    /\ UNCHANGED <<batch_input, csv_data, is_cancelled, finished, outsideWorker>>

\* how writing the report ends: written, no path for it, the write failed,
\* or an exception neither helper catches
ReportOutcomes == {"written", "no_path", "write_failed", "raised"}

\* the message of finished.emit at the end of the loop
FinalMessage(report) ==
    IF error_count # 0 THEN "errors" ELSE IF report = "written" THEN "report" ELSE ""

\* after the last row: progress, the summary, the report when a project was
\* generated, and finished.emit(error_count == 0, ...)
Finish ==
    /\ wpc = "row" /\ row_idx > Len(csv_data)
    /\ IF generated_project_names = <<>>
       THEN Emit(<<pu, lm, su>>, error_count = 0, FinalMessage("none"))
       ELSE \E report \in ReportOutcomes :
               IF report = "raised" THEN Caught(<<pu, lm, su, lm>>, "unexpected")
               ELSE Emit(<<pu, lm, su, lm, lm>>, error_count = 0, FinalMessage(report))
    /\ UNCHANGED <<batch_input, csv_data, row_idx, is_cancelled, processed_count,
                   error_count, cycle, generated_project_names, outsideWorker>>

\* BatchWorker.cancel, while run has not returned; its own log_message comes
\* from the caller's thread and is no signal of run
Cancel ==
    /\ wpc # "returned" /\ ~is_cancelled
    /\ is_cancelled' = TRUE
    /\ UNCHANGED <<batch_input, csv_data, row_idx, processed_count, error_count, cycle,
                   finished, signals, generated_project_names, wpc, outsideWorker>>

\* a step of run
RunStep ==
    \/ Start \/ NextRow \/ CopyTemplate \/ AfterCopy \/ UpdateProject \/ AfterUpdate
    \/ SaveChanges \/ Finish

WorkerNext ==
    \/ Start \/ NextRow \/ CopyTemplate \/ AfterCopy \/ UpdateProject \/ AfterUpdate
    \/ SaveChanges \/ Finish \/ Cancel

SpecWorker == WorkerInit /\ [][WorkerNext]_vars

\* run has a thread of its own and every call it makes returns, so a step
\* of run that can be taken is taken; nothing obliges the user to cancel
SpecWorkerLive == WorkerInit /\ [][WorkerNext]_vars /\ WF_vars(RunStep)

-----------------------------------------------------------------------------
(* process_json on objects in memory.  A dict or a list is a cell of the    *)
(* heap, known by its address; a value is a string, number, boolean or     *)
(* null, or the address of a cell.  Strings are immutable.                  *)

Ref(a) == [t |-> "ref", a |-> a]

\* a dict used as a map: material_map, csv_row_data
MapCell(m) == [t |-> "map", m |-> m]

RECURSIVE Deref(_, _)

\* the JSON value that is read through value v
Deref(heap, v) ==
    IF v.t # "ref" THEN v
    ELSE IF heap[v.a].t = "obj"
    THEN JObj([i \in 1..Len(heap[v.a].f) |->
                  KV(heap[v.a].f[i].k, Deref(heap, heap[v.a].f[i].v))])
    ELSE JArr([i \in 1..Len(heap[v.a].e) |-> Deref(heap, heap[v.a].e[i])])

RECURSIVE Build(_, _)
RECURSIVE BuildFields(_, _, _, _)
RECURSIVE BuildElems(_, _, _, _)

Built(heap, v) == [heap |-> heap, v |-> v]

\* a new cell
New(heap, cell) == Built(Append(heap, cell), Ref(Len(heap) + 1))

BuildFieldDone(built, f, i, done) ==
    BuildFields(built.heap, f, i + 1, Append(done, KV(f[i].k, built.v)))

BuildFields(heap, f, i, done) ==
    IF i > Len(f) THEN New(heap, JObj(done))
    ELSE BuildFieldDone(Build(heap, f[i].v), f, i, done)

BuildElemDone(built, e, i, done) == BuildElems(built.heap, e, i + 1, Append(done, built.v))

BuildElems(heap, e, i, done) ==
    IF i > Len(e) THEN New(heap, JArr(done))
    ELSE BuildElemDone(Build(heap, e[i]), e, i, done)

\* json.load: the objects of a document, each dict and list a cell of its own
Build(heap, x) ==
    CASE x.t = "obj" -> BuildFields(heap, x.f, 1, <<>>)
      [] x.t = "arr" -> BuildElems(heap, x.e, 1, <<>>)
      [] OTHER -> Built(heap, x)

\* the context dict as the rules read it: the two maps and the current dict
RuleContext(heap, context) ==
    [material_map |-> heap[context.material_map].m,
     csv_row_data |-> heap[context.csv_row_data].m,
     item |-> Deref(heap, context.item)]

\* the two stages on one string field
ProcessedString(eng, key, value, context) ==
    ProcessTextValue(eng, key, ProcessPathValue(eng, key, value, context).value,
                     context, 0, 0).value

\* dict[key] = v on the cell at address a
SetItem(heap, a, key, v) == [heap EXCEPT ![a] = JObj(DictSet(heap[a].f, key, v))]

\* list.append(v) on the cell at address a
ListAppend(heap, a, v) == [heap EXCEPT ![a] = JArr(Append(heap[a].e, v))]

InPlace(item, fresh) == item

\* processed_dict = {}: the dict the loop writes to is the new one
ProcessedDict(item, fresh) == fresh

RECURSIVE WalkItem(_, _, _, _)
RECURSIVE WalkFields(_, _, _, _, _, _)
RECURSIVE WalkElems(_, _, _, _, _, _)

ChildWalked(eng, walked, item, processed_dict, i, context) ==
    WalkFields(eng, SetItem(walked.heap, processed_dict, walked.heap[item].f[i].k, walked.v),
               item, processed_dict, i + 1, context)

\* the loop of _process_item over item.items(), from item i on, on cells
WalkFields(eng, heap, item, processed_dict, i, context) ==
    IF i > Len(heap[item].f) THEN Built(heap, Ref(processed_dict))
    ELSE IF IsStr(heap[item].f[i].v)
    THEN WalkFields(eng,
                    SetItem(heap, processed_dict, heap[item].f[i].k,
                            JStr(ProcessedString(eng, heap[item].f[i].k, heap[item].f[i].v.s,
                                                 RuleContext(heap, context)))),
                    item, processed_dict, i + 1, context)
    ELSE IF heap[item].f[i].v.t = "ref"
    THEN ChildWalked(eng, WalkItem(eng, heap, heap[item].f[i].v, context),
                     item, processed_dict, i, context)
    ELSE WalkFields(eng, SetItem(heap, processed_dict, heap[item].f[i].k, heap[item].f[i].v),
                    item, processed_dict, i + 1, context)

ElemWalked(eng, walked, item, processed_list, i, context) ==
    WalkElems(eng, ListAppend(walked.heap, processed_list, walked.v),
              item, processed_list, i + 1, context)

\* [self._process_item(elem, context) for elem in item], on cells
WalkElems(eng, heap, item, processed_list, i, context) ==
    IF i > Len(heap[item].e) THEN Built(heap, Ref(processed_list))
    ELSE ElemWalked(eng, WalkItem(eng, heap, heap[item].e[i], context),
                    item, processed_list, i, context)

\* PathMappingEngine._process_item on cells: a dict and a list give a new
\* cell, any other value is returned as it is
WalkItem(eng, heap, v, context) ==
    IF v.t # "ref" THEN Built(heap, v)
    ELSE IF heap[v.a].t = "obj"
    THEN WalkFields(eng, Append(heap, EmptyDict), v.a, ProcessedDict(v.a, Len(heap) + 1), 1,
                    [context EXCEPT !.item = v])
    ELSE WalkElems(eng, Append(heap, JArr(<<>>)), v.a, Len(heap) + 1, 1, context)

\* the arguments of a call, in memory
CallOf(heap, data, mmap, row) ==
    [heap |-> heap, json_data |-> data, material_map |-> mmap, csv_row_data |-> row]

\* material_map or {}: an empty map gives way to a new empty dict
OrEmpty(heap, a) ==
    IF DOMAIN heap[a].m = {} THEN New(heap, MapCell(EmptyMap)) ELSE Built(heap, Ref(a))

\* PathMappingEngine.process_json on cells
WalkJson(eng, call) ==
    IF call.json_data.t # "ref" THEN Built(call.heap, call.json_data)
    ELSE WalkItem(eng,
                  OrEmpty(OrEmpty(call.heap, call.material_map).heap, call.csv_row_data).heap,
                  call.json_data,
                  [material_map |-> OrEmpty(call.heap, call.material_map).v.a,
                   csv_row_data |->
                      OrEmpty(OrEmpty(call.heap, call.material_map).heap,
                              call.csv_row_data).v.a,
                   item |-> EmptyDict])

\* a configuration with every kind of rule
HeapConfigDocument ==
    JObj(<<KV("path_rules", JArr(<<LookupRuleConfig,
                                   JObj(RegexRuleConfig("pAB", <<JStr("*")>>, "A", "B"))>>)),
           KV("text_rules", JArr(<<JObj(RegexRuleConfig("tBC", <<JStr("k"), JStr("content")>>,
                                                        "B", "C")),
                                   PlaceholderRuleConfig>>)),
           KV("system_paths_to_ignore", JArr(<<JStr("SYS")>>))>>)

\* the documents, and two values that are no dict and no list
HeapDocuments == Documents \cup { JStr("A"), JNum(1) }

\* the caller's objects: the document, then the material map, then the row
CallWith(doc, mmap, row) ==
    CallOf(doc.heap \o <<MapCell(mmap), MapCell(row)>>, doc.v,
           Len(doc.heap) + 1, Len(doc.heap) + 2)

HeapInit ==
    /\ config_data \in {HeapConfigDocument, NoConfig}
    /\ engine = NewEngine(config_data)
    /\ json_data \in HeapDocuments
    /\ ctx_material_map \in MaterialMaps
    /\ ctx_csv_row \in AppliedRows
    /\ py_call = CallWith(Build(<<>>, json_data), ctx_material_map, ctx_csv_row)
    /\ py_heap = py_call.heap
    /\ py_result = Off
    /\ hpc = "call"
    /\ processed_data = Off /\ trail = Off /\ epc = Off
    /\ ResolverOff /\ RuleOff /\ WorkerOff

Walked(walked) == py_heap' = walked.heap /\ py_result' = walked.v

\* py_result = engine.process_json(json_data, material_map, csv_row_data)
ProcessInMemory ==
    /\ hpc = "call"
    /\ Walked(WalkJson(engine, py_call))
    /\ hpc' = "done"
    /\ UNCHANGED <<py_call, engineVars, resolverVars, ruleVars, workerVars>>

HeapNext == ProcessInMemory

SpecHeap == HeapInit /\ [][HeapNext]_vars

-----------------------------------------------------------------------------
(* Properties of the engine *)

\* the context a rule saw when the walk visited the field of record v
VisitContext(v) ==
    [material_map |-> ctx_material_map, csv_row_data |-> ctx_csv_row, item |-> v.item]

\* the ignore substrings of the configuration document
ConfiguredIgnores ==
    IF config_data = NoConfig THEN <<>>
    ELSE DictGet(config_data, "system_paths_to_ignore", JArr(<<>>)).e

HasIgnoreSubstring(value) ==
    \E j \in 1..Len(ConfiguredIgnores) : Contains(value, ConfiguredIgnores[j].s)

\* the rule of the list names the key, or names "*"
Targets(rule, key) ==
    \E j \in 1..Len(rule.target_keys) : rule.target_keys[j] \in {JStr(key), JStr("*")}

\* the first rule of the list, among those that target the key, whose apply
\* changes the value; 0 if there is none
FirstChanging(rules, v) ==
    MinOrZero({ r \in 1..Len(rules) :
                   Targets(rules[r], v.key) /\ Apply(rules[r], v.raw, VisitContext(v)) # v.raw })

\* the rules called for the field of record v are the rules that target its
\* key, in the order of the list, up to the first that changed the value
TriedUpToFirstChange(rules, v) ==
    /\ \A a, b \in 1..Len(v.path_steps) : a < b => v.path_steps[a].r < v.path_steps[b].r
    /\ { v.path_steps[a].r : a \in 1..Len(v.path_steps) }
         = { r \in 1..Len(rules) :
                /\ Targets(rules[r], v.key)
                /\ FirstChanging(rules, v) # 0 => r <= FirstChanging(rules, v) }
    /\ \A a \in 1..Len(v.path_steps) :
          /\ v.path_steps[a].in = v.raw
          /\ v.path_steps[a].out = Apply(rules[v.path_steps[a].r], v.raw, VisitContext(v))

\* C1: in process_json, for every string field whose value holds no ignore
\* substring, the path rules that target the field's key are tried in
\* ascending priority order; the path-stage output is what the first rule
\* whose apply changes its input returns, no later path rule is applied,
\* and the output is the value itself when no rule changes it.
PathRulesAtMostOneWins ==
    epc = "done" =>
       /\ \A a, b \in 1..Len(engine.path_rules) :
             a < b => engine.path_rules[a].priority.n <= engine.path_rules[b].priority.n
       /\ \A i \in 1..Len(trail) :
             ~HasIgnoreSubstring(trail[i].raw) =>
                /\ TriedUpToFirstChange(engine.path_rules, trail[i])
                /\ trail[i].path_out =
                      IF FirstChanging(engine.path_rules, trail[i]) = 0 THEN trail[i].raw
                      ELSE Apply(engine.path_rules[FirstChanging(engine.path_rules, trail[i])],
                                 trail[i].raw, VisitContext(trail[i]))

\* a field for which two path rules target the key, the first changed the
\* value and the second would change what the first returned
PathRuleWonOverLater ==
    /\ epc = "done"
    /\ \E i \in 1..Len(trail) : \E r \in 2..Len(engine.path_rules) :
          /\ ~HasIgnoreSubstring(trail[i].raw)
          /\ FirstChanging(engine.path_rules, trail[i]) = r - 1
          /\ Targets(engine.path_rules[r], trail[i].key)
          /\ Apply(engine.path_rules[r], trail[i].path_out, VisitContext(trail[i]))
                # trail[i].path_out
          /\ trail[i].path_out # trail[i].raw

\* the text rules of the list that target the key of record v, in list order
TextTargeting(rules, v) == SelectSeq([r \in 1..Len(rules) |-> r],
                                     LAMBDA r : Targets(rules[r], v.key))

\* C2: for every string field, every text rule that targets the field's key
\* is applied, in ascending priority order and without short-circuit, each
\* to the output of the previous one, starting from the value the path
\* stage returned (re-encoded if it was nested JSON content); with R1
\* replacing A by B and R2 replacing B by C, both for key k, {"k":"A"}
\* becomes {"k":"C"}.
TextRulesCumulative ==
    epc = "done" =>
       /\ \A a, b \in 1..Len(engine.text_rules) :
             a < b => engine.text_rules[a].priority.n <= engine.text_rules[b].priority.n
       /\ \A i \in 1..Len(trail) :
             /\ ~trail[i].nested => trail[i].text_in = trail[i].path_out
             /\ Len(trail[i].text_steps) = Len(TextTargeting(engine.text_rules, trail[i]))
             /\ \A a \in 1..Len(trail[i].text_steps) :
                   /\ trail[i].text_steps[a].r = TextTargeting(engine.text_rules, trail[i])[a]
                   /\ trail[i].text_steps[a].in =
                         IF a = 1 THEN trail[i].text_in ELSE trail[i].text_steps[a - 1].out
                   /\ trail[i].text_steps[a].out =
                         Apply(engine.text_rules[trail[i].text_steps[a].r],
                               trail[i].text_steps[a].in, VisitContext(trail[i]))
             /\ trail[i].text_out =
                   IF trail[i].text_steps = <<>> THEN trail[i].text_in
                   ELSE trail[i].text_steps[Len(trail[i].text_steps)].out
       /\ (/\ Len(engine.text_rules) = 2
           /\ engine.text_rules[1].id = JStr("tAB") /\ engine.text_rules[2].id = JStr("tBC")
           /\ engine.path_rules = <<>>
           /\ json_data.t = "obj" /\ DictGet(json_data, "k", JNull) = JStr("A"))
          => DictGet(processed_data, "k", JNull) = JStr("C")

\* {"k":"A"} went through R1 (A to B) and then R2 (B to C): both changed it
TextRulesChained ==
    /\ epc = "done"
    /\ \E i \in 1..Len(trail) :
          /\ trail[i].key = "k" /\ trail[i].text_in = "A" /\ trail[i].text_out = "C"
          /\ Len(trail[i].text_steps) = 2
          /\ trail[i].text_steps[1].out = "B" /\ trail[i].text_steps[2].in = "B"

\* C3: for every string value that contains a configured system-ignore
\* substring, at any depth of the document and inside nested JSON content,
\* no path rule modifies it: the path-stage output is the value, whatever
\* path rules are configured.
SystemPathsUntouched ==
    epc = "done" =>
       \A i \in 1..Len(trail) :
          HasIgnoreSubstring(trail[i].raw) =>
             /\ trail[i].path_out = trail[i].raw
             /\ trail[i].path_steps = <<>>

\* a value with an ignore substring, inside nested JSON content, that a
\* configured path rule targeting its key would have changed
SystemPathInNestedContent ==
    /\ epc = "done"
    /\ \E i \in 1..Len(trail) :
          /\ HasIgnoreSubstring(trail[i].raw)
          /\ trail[i].json > 0 /\ trail[i].depth > 0
          /\ \E r \in 1..Len(engine.path_rules) :
                /\ Targets(engine.path_rules[r], trail[i].key)
                /\ Apply(engine.path_rules[r], trail[i].raw, VisitContext(trail[i]))
                      # trail[i].raw

\* the records of the fields under a configured content key whose value,
\* as the path stage returned it, starts with "{" or "[" once trimmed and
\* parses as JSON
HoldsJson(v) ==
    /\ \E j \in 1..Len(engine.config.json_content_keys) :
          engine.config.json_content_keys[j] = JStr(v.key)
    /\ LooksLikeJson(v.path_out)
    /\ Loads(v.path_out).ok

RECURSIVE Compact(_, _, _)
\* no space, tab or line end of s from position i on lies outside a string
\* literal
Compact(s, i, in_string) ==
    IF i > Len(s) THEN TRUE
    ELSE IF in_string /\ Ch(s, i) = "\\" THEN Compact(s, i + 2, TRUE)
    ELSE IF Ch(s, i) = "\"" THEN Compact(s, i + 1, ~in_string)
    ELSE IF ~in_string /\ Ch(s, i) \in {" ", "\t", "\n", "\r"} THEN FALSE
    ELSE Compact(s, i + 1, in_string)

\* C11: for a string field under a configured content key whose trimmed
\* value starts with "{" or "[" and parses as JSON, the parsed structure is
\* processed recursively with the same rules and written back as a compact
\* serialization with no whitespace outside strings, on which the text
\* rules of the key then run; with a text rule replacing A by B for key k,
\* the content {"k": "A", ...} becomes {"k":"B", ...}.
NestedJsonWrittenBackCompact ==
    epc = "done" =>
       /\ \A i \in 1..Len(trail) :
             HoldsJson(trail[i]) =>
                /\ trail[i].nested
                /\ Compact(trail[i].text_in, 1, FALSE)
                /\ Loads(trail[i].text_in).ok
                /\ Loads(trail[i].text_in).v
                      = ProcessItem(engine, Loads(trail[i].path_out).v,
                                    VisitContext(trail[i]),
                                    trail[i].depth + 1, trail[i].json + 1).node
                /\ TextTargeting(engine.text_rules, trail[i]) = <<>>
                      => trail[i].text_out = trail[i].text_in
       /\ (/\ Len(engine.text_rules) = 1 /\ engine.text_rules[1].id = JStr("tAB")
           /\ engine.path_rules = <<>>
           /\ json_data = ContentDocument("A"))
          => DictGet(processed_data, "content", JNull)
                = JStr("{\"k\":\"B\",\"n\":[{\"path\":\"/t/a.png\"}]}")

\* the content {"k": "A","n":[...]} had a space outside its strings, the
\* rule for k changed the A inside, and the field holds the compact text
NestedJsonRewritten ==
    /\ epc = "done"
    /\ \E i \in 1..Len(trail) :
          /\ trail[i].key = "content" /\ trail[i].nested
          /\ ~Compact(trail[i].raw, 1, FALSE)
          /\ trail[i].raw = "{\"k\": \"A\",\"n\":[{\"path\":\"/t/a.png\"}]}"
          /\ trail[i].text_out = "{\"k\":\"B\",\"n\":[{\"path\":\"/t/a.png\"}]}"
          /\ \E j \in 1..Len(trail) :
                trail[j].json = 1 /\ trail[j].key = "k" /\ trail[j].text_out = "B"

RECURSIVE SameTree(_, _, _)
\* tree b is tree a, except that a string under a content key that holds
\* JSON may be another text; reparsed says what the two texts have to be
\* to each other once parsed: "equal" for the same value, "same" for
\* SameTree again
SameTree(a, b, reparsed) ==
    CASE a.t = "obj" ->
            /\ b.t = "obj" /\ Len(b.f) = Len(a.f)
            /\ \A i \in 1..Len(a.f) :
                  /\ b.f[i].k = a.f[i].k
                  /\ IF /\ a.f[i].v.t = "str"
                        /\ \E j \in 1..Len(engine.config.json_content_keys) :
                              engine.config.json_content_keys[j] = JStr(a.f[i].k)
                        /\ LooksLikeJson(a.f[i].v.s) /\ Loads(a.f[i].v.s).ok
                     THEN /\ b.f[i].v.t = "str"
                          /\ Compact(b.f[i].v.s, 1, FALSE)
                          /\ Loads(b.f[i].v.s).ok
                          /\ IF reparsed = "equal"
                             THEN Loads(b.f[i].v.s).v = Loads(a.f[i].v.s).v
                             ELSE SameTree(Loads(a.f[i].v.s).v, Loads(b.f[i].v.s).v, reparsed)
                     ELSE SameTree(a.f[i].v, b.f[i].v, reparsed)
      [] a.t = "arr" ->
            /\ b.t = "arr" /\ Len(b.e) = Len(a.e)
            /\ \A i \in 1..Len(a.e) : SameTree(a.e[i], b.e[i], reparsed)
      [] OTHER -> b = a

\* the engine has no rule
NoRules == engine.path_rules = <<>> /\ engine.text_rules = <<>>

\* C12 as stated: every JSON content string is equal to the original when
\* re-parsed.  Refuted by JSON content that holds JSON content with a
\* space: the inner text is compacted as well.
NoRulesContentReparsesEqual ==
    (epc = "done" /\ NoRules) => SameTree(json_data, processed_data, "equal")

\* C12: with an empty rule set (an engine built with no configuration path
\* included), process_json(D, {}, {}) returns a tree structurally equal to
\* D, except that a string under a content key that holds JSON is
\* re-serialized in compact form; re-parsed, it is equal to the original
\* re-parsed up to the same exception for the content strings inside it.
NoRulesKeepDocument ==
    (epc = "done" /\ NoRules) => SameTree(json_data, processed_data, "same")

\* an engine built with no configuration path returned a document whose
\* content string it compacted, and the rest as it was
NoConfigCompactedContent ==
    /\ epc = "done" /\ config_data = NoConfig /\ NoRules
    /\ json_data = ListContentDocument
    /\ processed_data # json_data
    /\ processed_data = JArr(<<JObj(<<KV("content", JStr("[\"A\",{\"k\":\"A\"}]"))>>)>>)

\* the field of record v is under a content key and its value, as the
\* path stage returned it, starts with "{" or "[" and does not parse
UnparsableContent(v) ==
    /\ \E j \in 1..Len(engine.config.json_content_keys) :
          engine.config.json_content_keys[j] = JStr(v.key)
    /\ LooksLikeJson(v.path_out)
    /\ ~Loads(v.path_out).ok

RECURSIVE TextRulesFrom(_, _, _)
\* the text rules that target the key of record v, from the a-th on,
\* applied in turn to the string current
TextRulesFrom(v, a, current) ==
    IF a > Len(TextTargeting(engine.text_rules, v)) THEN current
    ELSE TextRulesFrom(v, a + 1,
                       Apply(engine.text_rules[TextTargeting(engine.text_rules, v)[a]],
                             current, VisitContext(v)))

\* C24: a string field under a content key that starts with "{" or "[" and
\* does not parse as JSON is ordinary text: the walk does not descend into
\* it, the text rules of the key run on the string the path stage
\* returned, and process_json returns.
UnparsableContentIsText ==
    epc = "done" =>
       /\ \A i \in 1..Len(trail) :
             UnparsableContent(trail[i]) =>
                /\ ~trail[i].nested
                /\ trail[i].text_in = trail[i].path_out
                /\ trail[i].text_out = TextRulesFrom(trail[i], 1, trail[i].path_out)
                /\ i < Len(trail) => trail[i + 1].json <= trail[i].json
       /\ json_data = BrokenContentDocument =>
             /\ Len(trail) = 1
             /\ processed_data = JObj(<<KV("content", JStr(trail[1].text_out))>>)

\* the content {AB does not parse: the path rule for every key made it
\* {BB and the text rule of the content key made that {CC
BrokenContentRewrittenAsText ==
    /\ epc = "done"
    /\ json_data = BrokenContentDocument
    /\ UnparsableContent(trail[1])
    /\ trail[1].raw = "{AB" /\ trail[1].path_out = "{BB" /\ trail[1].text_out = "{CC"
    /\ processed_data = JObj(<<KV("content", JStr("{CC"))>>)

RECURSIVE SameShape(_, _)

\* field n of the output object stands for field n of the input object: the
\* same key; a string for a string, the same shape for an object or an
\* array, and the same value for a number, a boolean and null
SameField(in, out) ==
    /\ out.k = in.k
    /\ CASE IsStr(in.v) -> IsStr(out.v)
         [] in.v.t \in {"obj", "arr"} -> SameShape(in.v, out.v)
         [] OTHER -> out.v = in.v

\* element n of the output array stands for element n of the input array:
\* the same shape for an object or an array, the same value for anything
\* else, a string included
SameElement(in, out) ==
    IF in.t \in {"obj", "arr"} THEN SameShape(in, out) ELSE out = in

\* the output tree has the keys of the input tree in the same order and
\* arrays of the same length, and differs from it in string fields only
SameShape(in, out) ==
    CASE in.t = "obj" ->
            /\ out.t = "obj" /\ Len(out.f) = Len(in.f)
            /\ \A n \in 1..Len(in.f) : SameField(in.f[n], out.f[n])
      [] in.t = "arr" ->
            /\ out.t = "arr" /\ Len(out.e) = Len(in.e)
            /\ \A n \in 1..Len(in.e) : SameElement(in.e[n], out.e[n])
      [] OTHER -> out = in

\* C25: rules reach the string fields of objects only.  In the tree that
\* process_json returns, a string that is an element of an array is the
\* input's string whatever the rules target, numbers, booleans and null
\* are the input's at every depth, every object has the input's keys in the
\* input's order and every array the input's length.
OnlyStringFieldsRewritten ==
    epc = "done" => SameShape(json_data, processed_data)

\* a path rule for "*" changed the field k inside the first element of the
\* array materials and left the string A that is its second element
ArrayStringKeptBesideRewrittenField ==
    /\ epc = "done"
    /\ \E r \in 1..Len(engine.path_rules) :
          engine.path_rules[r].target_keys = <<JStr("*")>>
          /\ Apply(engine.path_rules[r], "A", VisitContext(trail[1])) = "B"
    /\ json_data = NestedDocument("A")
    /\ processed_data.f[1].v.e[2] = JStr("A")
    /\ DictGet(DictGet(processed_data.f[1].v.e[1], "inner", JNull), "k", JNull) # JStr("A")

\* C26: whenever the rules are called for a field of an object, the
\* context has that object, as it is in the input, under 'item': not its
\* parent, a sibling, a child visited before or the copy being built; this
\* holds for the fields that come after a child object, an array of
\* objects or JSON content of the same object.
ContextItemIsHolder ==
    epc = "done" => \A i \in 1..Len(trail) : trail[i].item = trail[i].holder

\* a visit of the document's own field with this key, for which a rule was
\* called, with the document under 'item'
OwnFieldVisited(key) ==
    \E i \in 1..Len(trail) :
       /\ trail[i].key = key /\ trail[i].depth = 0 /\ trail[i].json = 0
       /\ trail[i].path_steps \o trail[i].text_steps # <<>>
       /\ trail[i].item = json_data

\* the fields path, k and z come after the child inner, the array list and
\* the content; the lookup rule, reading extra_info of the document and not
\* of a child, mapped path to the material a
SiblingsSawOwnObject ==
    /\ epc = "done"
    /\ json_data = SiblingsDocument
    /\ OwnFieldVisited("path") /\ OwnFieldVisited("k") /\ OwnFieldVisited("z")
    /\ \E i \in 1..Len(trail) : trail[i].depth > 0 /\ trail[i].item # json_data
    /\ \E i \in 1..Len(trail) : trail[i].json > 0 /\ trail[i].item # json_data
    /\ DictGet(processed_data, "path", JNull) = JStr("/c/A.png")

-----------------------------------------------------------------------------
(* Properties of loading *)

\* what json.load returned for the configuration file
ParsedConfig == IF config_data.t = "text" THEN Loads(config_data.s).v ELSE config_data

\* the entries of a rule list as the configuration document has them
Configured(list_key) == DictGet(ParsedConfig, list_key, JArr(<<>>)).e

\* the configuration was loaded from a file
Loaded == epc = "ready" /\ engine.ok /\ config_data # NoConfig

\* an entry whose regex does not parse or that lacks a parameter its type
\* requires
LacksRequired(c) ==
    \/ /\ DictGet(c, "type", JNull) = JStr("regex")
       /\ \/ StrOr(DictGet(c, "pattern", JStr("")), "") = ""
          \/ ~ReCompile(DictGet(c, "pattern", JStr("")).s).ok
    \/ /\ DictGet(c, "type", JNull) = JStr("regex_placeholder")
       /\ \/ StrOr(DictGet(c, "pattern", JStr("")), "") = ""
          \/ ~HasKey(c, "source")
          \/ ~ReCompile(DictGet(c, "pattern", JStr("")).s).ok
          \/ ReCompile(DictGet(c, "pattern", JStr("")).s).groups < 1

\* no rule of the list has the identifier of entry c
NotActive(rules, c) ==
    \A j \in 1..Len(rules) : rules[j].id # DictGet(c, "id", JStr("unknown_rule"))

\* C14: every rule configuration with an unparsable regex or a missing
\* required parameter (a regex rule without pattern; a placeholder rule
\* without pattern, without source, or whose pattern has no capture group)
\* is dropped by the factory: create_rule returns no rule and the rule is
\* in neither active list of the engine.  Refuted by a placeholder rule
\* without pattern.
InvalidRulesDropped ==
    Loaded =>
       /\ \A i \in 1..Len(Configured("path_rules")) :
             (Configured("path_rules")[i].t = "obj" /\ LacksRequired(Configured("path_rules")[i]))
             => /\ CreateRule(Configured("path_rules")[i]) = NoRule
                /\ NotActive(engine.path_rules, Configured("path_rules")[i])
       /\ \A i \in 1..Len(Configured("text_rules")) :
             (Configured("text_rules")[i].t = "obj" /\ LacksRequired(Configured("text_rules")[i]))
             => /\ CreateRule(Configured("text_rules")[i]) = NoRule
                /\ NotActive(engine.text_rules, Configured("text_rules")[i])

\* the position of entry c in the list
Position(list, c) == MinOrZero({ i \in 1..Len(list) : list[i] = c })

\* loaded holds exactly the entries of configured at the positions kept,
\* ordered by priority ascending, an absent priority counted as 999, and
\* entries of equal priority in the order of the document
SortedSelection(loaded, configured, kept) ==
    /\ Len(loaded) = Cardinality(kept)
    /\ \A i \in kept : \E j \in 1..Len(loaded) : loaded[j] = configured[i]
    /\ \A a, b \in 1..Len(loaded) :
          a < b =>
             /\ ~PriorityLess(DictGet(loaded[b], "priority", JNum(999)),
                              DictGet(loaded[a], "priority", JNum(999)))
             /\ ~PriorityLess(DictGet(loaded[a], "priority", JNum(999)),
                              DictGet(loaded[b], "priority", JNum(999)))
                => Position(configured, loaded[a]) < Position(configured, loaded[b])

\* the entries whose enabled field is not false
NotFalse(configured) ==
    { i \in 1..Len(configured) :
         configured[i].t # "obj" \/ DictGet(configured[i], "enabled", JTrue) # JBool(FALSE) }

\* the entries that are objects whose enabled field is absent or truthy
ObjectsEnabled(configured) ==
    { i \in 1..Len(configured) :
         configured[i].t = "obj" /\ Truthy(DictGet(configured[i], "enabled", JTrue)) }

\* C15 as stated, for every entry whose enabled field is not false.
\* Refuted by an entry with "enabled": null and by an entry that is no
\* object: neither is in the loaded list.
RuleListsKeepNotFalse ==
    Loaded =>
       /\ SortedSelection(engine.config.path_rules, Configured("path_rules"),
                          NotFalse(Configured("path_rules")))
       /\ SortedSelection(engine.config.text_rules, Configured("text_rules"),
                          NotFalse(Configured("text_rules")))

\* C15: after loading, each of the two rule lists contains exactly the
\* configured entries that are objects whose enabled field is absent or
\* truthy, ordered by priority ascending with an absent priority counted
\* as 999, and entries of equal priority keep their order in the
\* configuration document.
RuleListsEnabledSorted ==
    Loaded =>
       /\ SortedSelection(engine.config.path_rules, Configured("path_rules"),
                          ObjectsEnabled(Configured("path_rules")))
       /\ SortedSelection(engine.config.text_rules, Configured("text_rules"),
                          ObjectsEnabled(Configured("text_rules")))

\* two entries of priority 2 were loaded in the order of the document in
\* both lists, and an entry without priority went behind one of priority 1
EqualPriorityKeptOrder ==
    /\ Loaded
    /\ Len(engine.config.path_rules) = 2
    /\ DictGet(engine.config.path_rules[1], "id", JNull) = JStr("p2a")
    /\ DictGet(engine.config.path_rules[2], "id", JNull) = JStr("p2b")
    /\ DictGet(engine.config.text_rules[1], "id", JNull) = JStr("p2b")
    /\ DictGet(engine.config.text_rules[2], "id", JNull) = JStr("p2a")

\* one of the four list fields of the document is there and is no list
ListFieldNotList(p) ==
    \E k \in {"path_rules", "text_rules", "system_paths_to_ignore", "json_content_keys"} :
       HasKey(p, k) /\ DictGet(p, k, JNull).t # "arr"

\* the file is absent, unreadable or not valid JSON, or a list field is
\* present and is no list
MustFail ==
    \/ config_data.t \in {"missing", "unreadable"}
    \/ config_data.t = "text" /\ ~Loads(config_data.s).ok
    \/ /\ config_data.t = "obj" \/ (config_data.t = "text" /\ Loads(config_data.s).ok)
       /\ ParsedConfig.t = "obj" /\ ListFieldNotList(ParsedConfig)

\* C16: loading a rule configuration has exactly two outcomes, a RuleConfig
\* or a ConfigError: it fails with ConfigError when the file is absent,
\* unreadable, not valid JSON, or when one of the four list fields is
\* present but not a list; a version mismatch alone never makes the load
\* fail, and no other exception escapes.  Refuted by a file that holds a
\* JSON array or number, and by priorities that do not compare.
LoadGivesConfigOrConfigError ==
    (epc = "ready" /\ config_data # NoConfig) =>
       /\ engine.error \in {"", "ConfigError"}
       /\ MustFail => engine.error = "ConfigError"
       /\ (ParsedConfig.t = "obj" /\ ~MustFail) => engine.ok

-----------------------------------------------------------------------------
(* Properties of one rule *)

\* C13: every rule variant's apply is total: for any value and any context
\* it returns without raising.  Refuted by the lookup rule on a context
\* whose 'item' is no dict and on lookup_methods that are no list, and by
\* the placeholder rule with a source that is a list.
ApplyIsTotal == fpc = "applied" => ~apply_result.raised

ConfiguredMethods == DictGet(factory_config, "lookup_methods", JArr(<<>>))

\* a lookup rule with a list of methods was applied to a string, with a
\* context that carries the current object
LookupApplied ==
    /\ fpc = "applied"
    /\ DictGet(factory_config, "type", JNull) = JStr("material_map_lookup")
    /\ ConfiguredMethods.t = "arr"
    /\ IsStr(applied_value)
    /\ applied_context.item.t = "obj"

\* the candidate key of the i-th configured method
CandidateKey(i) ==
    IF ConfiguredMethods.e[i].t = "obj"
    THEN DerivedKey(ConfiguredMethods.e[i], applied_value.s, applied_context.item)
    ELSE NoKey

\* the i-th configured method yields a key that is in the material map
Hit(i) == CandidateKey(i).ok /\ CandidateKey(i).s \in DOMAIN applied_context.material_map

MappedBy(i) == applied_context.material_map[CandidateKey(i).s]

FirstHit == MinOrZero({ i \in 1..Len(ConfiguredMethods.e) : Hit(i) })

\* what the first method with a key in the map gives: the mapped value when
\* it is a string, the input otherwise; the input when no method has one
FirstHitValue ==
    IF FirstHit = 0 THEN applied_value
    ELSE IF IsStr(MappedBy(FirstHit)) THEN MappedBy(FirstHit)
    ELSE applied_value

\* C17 as stated, for every string value.  Refuted by the empty string:
\* apply returns it before it looks at any method.
LookupReturnsFirstHit ==
    LookupApplied => ~apply_result.raised /\ apply_result.value = FirstHitValue

\* C17: applied to a non-empty string, the lookup rule tries its methods in
\* configured order and stops at the first whose candidate key is in the
\* material map: it returns the mapped value when that is a string and the
\* input otherwise; when no method yields such a key it returns the input.
LookupReturnsFirstHitNonEmpty ==
    (LookupApplied /\ applied_value.s # "")
    => ~apply_result.raised /\ apply_result.value = FirstHitValue

\* the first method found a value that is no string, the second would have
\* found a string, and the rule returned its input
LookupStoppedAtNonString ==
    /\ LookupApplied /\ applied_value.s # ""
    /\ Len(ConfiguredMethods.e) = 2
    /\ Hit(1) /\ ~IsStr(MappedBy(1))
    /\ Hit(2) /\ IsStr(MappedBy(2))
    /\ apply_result = ReturnedValue(applied_value)

\* a placeholder rule with a pattern, reading one of the two maps, was
\* applied to a string
PlaceholderApplied ==
    /\ fpc = "applied"
    /\ DictGet(factory_config, "type", JNull) = JStr("regex_placeholder")
    /\ DictGet(factory_config, "source", JNull) \in {JStr("material_map"), JStr("csv_row_data")}
    /\ HasKey(factory_config, "pattern")
    /\ IsStr(applied_value)

\* the map the rule's source names
NamedSource ==
    IF DictGet(factory_config, "source", JNull) = JStr("material_map")
    THEN applied_context.material_map
    ELSE applied_context.csv_row_data

RECURSIVE Expanded(_, _, _, _, _)

\* the matched text with its key looked up in the map: the string form of
\* the mapped value, or the text itself
LookedUp(key, src, text) == IF key \in DOMAIN src THEN PyStr(src[key]) ELSE text

ExpandedAt(re, src, s, i, stripped, m) ==
    IF m.ok /\ m.len > 0
    THEN LookedUp(IF stripped THEN Strip(m.g1) ELSE m.g1, src, SubSeq(s, i, i + m.len - 1))
         \o Expanded(re, src, s, i + m.len, stripped)
    ELSE Ch(s, i) \o Expanded(re, src, s, i + 1, stripped)

\* s from position i on with every match of the pattern looked up, by the
\* captured key or by the captured key without surrounding whitespace
Expanded(re, src, s, i, stripped) ==
    IF i > Len(s) THEN "" ELSE ExpandedAt(re, src, s, i, stripped, ReMatchAt(re, s, i))

\* C18 as stated, with the captured key looked up as it is.  Refuted by a
\* pattern whose group takes whitespace: "## a ##" is replaced by the value
\* under "a".
PlaceholderLooksUpCapturedKey ==
    PlaceholderApplied =>
       /\ ~apply_result.raised
       /\ apply_result.value
            = JStr(Expanded(ReCompile(DictGet(factory_config, "pattern", JNull).s),
                            NamedSource, applied_value.s, 1, FALSE))
       /\ DOMAIN NamedSource = {} => apply_result.value = applied_value

\* C18: the placeholder rule replaces every match whose captured key,
\* without surrounding whitespace, is in the named source map (material map
\* or CSV row) by the string form of the mapped value, and leaves every
\* other match exactly as its placeholder text, without error; with an
\* empty source map the value is returned unchanged.
PlaceholderLooksUpStrippedKey ==
    PlaceholderApplied =>
       /\ ~apply_result.raised
       /\ apply_result.value
            = JStr(Expanded(ReCompile(DictGet(factory_config, "pattern", JNull).s),
                            NamedSource, applied_value.s, 1, TRUE))
       /\ DOMAIN NamedSource = {} => apply_result.value = applied_value

\* a string and null were written in their string form, a key with spaces
\* around it was found, and the placeholder of an absent key was kept
PlaceholdersPartlyReplaced ==
    /\ PlaceholderApplied
    /\ applied_value = JStr("##foo## ## a ## ##zz####a##")
    /\ apply_result = ReturnedValue(JStr("F None ##zz##None"))

\* apply was called on a RegexRule with a string
RegexApplied == fpc = "applied" /\ created_rule.kind = "regex" /\ IsStr(applied_value)

\* the pattern and the replacement template of the rule's configuration
ConfiguredPattern == ReCompile(DictGet(factory_config, "pattern", JStr("")).s)
ConfiguredReplacement == DictGet(factory_config, "replacement", JStr(""))

RECURSIVE MatchesOf(_, _, _)

MatchFound(re, s, i, m) ==
    IF m.ok /\ m.len > 0
    THEN <<[at |-> i, len |-> m.len, g1 |-> m.g1]>> \o MatchesOf(re, s, i + m.len)
    ELSE MatchesOf(re, s, i + 1)

\* the matches of the pattern in s, leftmost first and without overlap
MatchesOf(re, s, i) ==
    IF i > Len(s) THEN <<>> ELSE MatchFound(re, s, i, ReMatchAt(re, s, i))

\* what stands for one match: the template with its group references
\* expanded, or the matched text when the expansion fails
ReplacementText(s, match) ==
    IF Expansion(ConfiguredReplacement, ConfiguredPattern.groups, match.g1).ok
    THEN Expansion(ConfiguredReplacement, ConfiguredPattern.groups, match.g1).s
    ELSE SubSeq(s, match.at, match.at + match.len - 1)

RECURSIVE Substituted(_, _, _, _)
\* s with every match from the k-th on replaced, from position pos on
Substituted(s, matches, k, pos) ==
    IF k > Len(matches) THEN SubSeq(s, pos, Len(s))
    ELSE SubSeq(s, pos, matches[k].at - 1) \o ReplacementText(s, matches[k])
         \o Substituted(s, matches, k + 1, matches[k].at + matches[k].len)

\* C23: the regex rule substitutes every match of its pattern in the value
\* by the replacement template with its group references expanded, and
\* leaves a match whose expansion fails as its matched text while the other
\* matches are still processed; pattern (\d+)\.png with replacement
\* img_\1.jpg turns 5.png into img_5.jpg.
RegexSubstitutesEveryMatch ==
    RegexApplied =>
       /\ ~apply_result.raised
       /\ apply_result.value =
             JStr(Substituted(applied_value.s,
                              MatchesOf(ConfiguredPattern, applied_value.s, 1), 1, 1))
       /\ (factory_config = JObj(RegexRuleConfig("rExample", <<JStr("*")>>,
                                                 "(\\d+)\\.png", "img_\\1.jpg"))
           /\ applied_value = JStr("5.png"))
          => apply_result.value = JStr("img_5.jpg")

\* the template names a second group, which the pattern does not have: the
\* two matches of the value are left as they are
FailedExpansionLeftMatches ==
    /\ RegexApplied
    /\ ConfiguredReplacement = JStr("img_\\2.jpg")
    /\ applied_value = JStr("A5.png 12.pngA")
    /\ Len(MatchesOf(ConfiguredPattern, applied_value.s, 1)) = 2
    /\ apply_result = ReturnedValue(applied_value)

-----------------------------------------------------------------------------
(* Properties of the batch worker *)

\* C19: a cancel request never interrupts a row cycle that has started:
\* once the template copy of a row has begun, the row's copy, its
\* transformation and its save run to the end (or the row fails by itself),
\* and cancellation only keeps the next row from starting.  Refuted by a
\* cancel request that arrives during the copy, or during the
\* transformation: run looks at the flag after each and stops.
CancelSparesStartedRow == wpc = "returned" => cycle.state # "running"

\* how many times run has emitted finished
FinishedEmitted == Cardinality({ i \in 1..Len(signals) : signals[i] = "finished" })

\* nothing of finished while run works; once run has returned, one
\* finished, and it is the last signal
FinishedOnceAndLast ==
    IF wpc = "returned"
    THEN /\ FinishedEmitted = 1
         /\ signals[Len(signals)] = "finished"
         /\ finished # NoSignal
    ELSE FinishedEmitted = 0 /\ finished = NoSignal

\* C29: every execution of run comes to its end, and by then it has emitted
\* finished exactly once, as the last of its signals, whichever way it
\* went: license refusal, invalid paths, a CSV file that cannot be loaded,
\* an empty CSV file, the end of the loop, cancellation, or an exception
\* nobody expected.
RunEmitsFinishedOnce == [] FinishedOnceAndLast /\ <>(wpc = "returned")

\* run was cancelled after it had generated one project, and finished is
\* the last of its signals
CancelledRunFinished ==
    /\ wpc = "returned" /\ finished = [success |-> FALSE, message |-> "cancelled"]
    /\ processed_count = 1
    /\ FinishedEmitted = 1 /\ signals[Len(signals)] = "finished"

\* the ProjectName column of every row of the CSV file, in order
AllProjectNames == [i \in 1..Len(csv_data) |-> csv_data[i].ProjectName]

\* the step fails a row: run, not cancelled, is at the head of the loop
\* with a row that has no ProjectName, or the cycle of the row ends in an
\* error
RowFails ==
    \/ /\ wpc = "row" /\ row_idx <= Len(csv_data)
       /\ ~is_cancelled /\ ~is_cancelled'
       /\ csv_data[row_idx].ProjectName = ""
    \/ cycle.state = "running" /\ cycle'.state = "failed"

\* the step ends a row cycle whose copy, update and save all succeeded
RowSucceeds ==
    /\ cycle.state = "running"
    /\ cycle'.copied /\ cycle'.updated /\ cycle'.saved

\* what a step of the loop does to the counters and the report list
RowStep ==
    /\ RowFails <=> error_count' # error_count
    /\ RowFails => /\ error_count' = error_count + 1
                   /\ row_idx' = row_idx + 1 /\ wpc' = "row"
                   /\ UNCHANGED <<processed_count, generated_project_names, finished,
                                  csv_data>>
    /\ RowSucceeds <=> generated_project_names' # generated_project_names
    /\ RowSucceeds => /\ generated_project_names' =
                            Append(generated_project_names, csv_data[cycle.row].ProjectName)
                      /\ cycle.row = row_idx /\ row_idx' = row_idx + 1 /\ wpc' = "row"

\* the save is called for an updated copy only, and the success flag of a
\* run that came to the loop says whether every row was generated, unless
\* the run was cancelled or ended in an exception after the loop
RowAccounting ==
    /\ wpc = "save" => cycle.copied /\ cycle.updated
    /\ cycle.saved => cycle.copied /\ cycle.updated
    /\ (wpc = "returned" /\ csv_data # <<>>) =>
          /\ finished.success => generated_project_names = AllProjectNames
          /\ (/\ generated_project_names = AllProjectNames
              /\ finished.message \notin {"cancelled", "unexpected"}) => finished.success
          /\ finished.success <=> (error_count = 0 /\ finished.message \in {"report", ""})

\* C30: in the loop a failing row (no ProjectName, failed copy, handler
\* that cannot be constructed, update_material_paths returning False,
\* failed save) adds one to the error count and the loop goes on with the
\* next row; a project name is appended to the report list exactly when
\* the copy, the update and the save of its row succeeded; the save is not
\* called after a failed update; and the success flag emitted at the end of
\* the loop is true exactly when no row failed.
FailingRowsCountedAndSkipped == [][RowStep]_vars /\ []RowAccounting

\* the first row failed and the second was generated: the report list
\* holds the second name only and the flag is false
SecondRowGeneratedAfterFailure ==
    /\ wpc = "returned" /\ Len(csv_data) = 2
    /\ csv_data[1].ProjectName = "p1" /\ csv_data[2].ProjectName = "p2"
    /\ generated_project_names = <<"p2">>
    /\ error_count = 1 /\ processed_count = 1
    /\ finished = [success |-> FALSE, message |-> "errors"]

-----------------------------------------------------------------------------
(* Properties of process_json on objects in memory *)

RECURSIVE Reach(_, _)

\* the addresses of the cells that are read through value v
Reach(heap, v) ==
    IF v.t # "ref" THEN {}
    ELSE {v.a}
         \cup (IF heap[v.a].t = "obj"
                THEN UNION { Reach(heap, heap[v.a].f[i].v) : i \in 1..Len(heap[v.a].f) }
                ELSE UNION { Reach(heap, heap[v.a].e[i]) : i \in 1..Len(heap[v.a].e) })

\* C20: process_json never mutates its input: after the call every dict
\* and list of the input document, the material map and the CSV row are
\* what they were before the call, and the result of processing a dict or
\* a list is a newly built tree, none of whose dicts and lists is one of
\* the input's.
InputNeverMutated ==
    hpc = "done" =>
       /\ \A a \in 1..Len(py_call.heap) : py_heap[a] = py_call.heap[a]
       /\ Deref(py_heap, py_call.json_data) = json_data
       /\ py_heap[py_call.material_map].m = ctx_material_map
       /\ py_heap[py_call.csv_row_data].m = ctx_csv_row
       /\ Reach(py_heap, py_result) \cap (1..Len(py_call.heap)) = {}
       /\ py_call.json_data.t = "ref" => py_result.t = "ref" /\ py_result # py_call.json_data

\* a document with a dict in a list in a dict was processed, the rules
\* changed a string, the result is what the walk over values gives, and the
\* input still reads as before
NestedDocumentRebuilt ==
    /\ hpc = "done"
    /\ Cardinality(Reach(py_heap, py_call.json_data)) >= 4
    /\ Deref(py_heap, py_result) # json_data
    /\ Deref(py_heap, py_result)
         = ProcessJson(engine, json_data, ctx_material_map, ctx_csv_row).node
    /\ Deref(py_heap, py_call.json_data) = json_data

-----------------------------------------------------------------------------
(* The material resolver: capcut_handler.py and file_system_handler.py.     *)
(* The file system is the set fs_files of the regular files that exist,     *)
(* each an absolute path; a directory exists when a file lies below it.     *)
(* None is the empty string where the code only tests truthiness.           *)

MATERIAL_TYPE_MAP ==
    << [prefix |-> "img", type_dir |-> "image"], [prefix |-> "photo", type_dir |-> "photo"],
       [prefix |-> "video", type_dir |-> "video"], [prefix |-> "bgm", type_dir |-> "audio"],
       [prefix |-> "se", type_dir |-> "audio"], [prefix |-> "voice", type_dir |-> "audio"],
       [prefix |-> "music", type_dir |-> "music"] >>

MATERIAL_SUBFOLDERS ==
    {"video", "audio", "image", "text", "effect", "sticker", "filter", "transition",
     "font", "music", "photo", "img", "bgm", "se", "voice"}

\* TEMPLATE_TYPE_DIRS.get(material_type, [material_type])
TEMPLATE_TYPE_DIRS(material_type) ==
    CASE material_type = "image" -> <<"image", "photo", "img">>
      [] material_type = "video" -> <<"video">>
      [] material_type = "audio" -> <<"audio", "music", "bgm", "se", "voice">>
      [] OTHER -> <<material_type>>

\* list(FileSystemHandler.TEMPLATE_TYPE_DIRS.keys())
LogicalTypes == {"image", "video", "audio"}

DirectChangeSubdirs == {"bgm", "img", "se", "video", "voice"}

\* os.path.isfile / Path.is_file
IsFile(files, path) == path \in files

\* Path.is_dir
IsDir(files, path) ==
    \E f \in files : StartsWith(f, IF path = "/" THEN "/" ELSE path \o "/")

\* "".join(c if c.isalnum() or c in ('_', '-') else '_' for c in project_name)
SafeProjectName(project_name) ==
    [i \in 1..Len(project_name) |->
        IF IsAlnum(Ch(project_name, i)) \/ Ch(project_name, i) \in {"_", "-"}
        THEN Ch(project_name, i) ELSE "_"]

RECURSIVE Concat(_)
\* "".join(chars)
Concat(chars) == IF chars = <<>> THEN "" ELSE Head(chars) \o Concat(Tail(chars))

FileOrNone(files, potential_path) ==
    IF IsFile(files, potential_path) THEN potential_path ELSE ""

FindChangeMaterialByRawName(files, csv_filename, project_name, material_type, base) ==
    IF base = "" \/ csv_filename = "" \/ project_name = "" \/ material_type = "" THEN ""
    ELSE FileOrNone(files,
                    PathJoin(PathJoin(PathJoin(Resolve(base), project_name), material_type),
                             csv_filename))

\* FileSystemHandler.find_change_material
FindChangeMaterial(files, csv_filename, project_name, material_type, base) ==
    IF base = "" \/ csv_filename = "" \/ project_name = "" \/ material_type = "" THEN ""
    ELSE FileOrNone(files,
                    PathJoin(PathJoin(PathJoin(Resolve(base),
                                               Concat(SafeProjectName(project_name))),
                                      material_type),
                             csv_filename))

RECURSIVE FirstInDirs(_, _, _, _, _)
\* the loop of find_template_material_by_name over possible_dirs
FirstInDirs(files, project_path, possible_dirs, i, filename) ==
    IF i > Len(possible_dirs) THEN ""
    ELSE IF /\ IsDir(files, PathJoin(project_path, possible_dirs[i]))
            /\ IsFile(files, PathJoin(PathJoin(project_path, possible_dirs[i]), filename))
    THEN Resolve(PathJoin(PathJoin(project_path, possible_dirs[i]), filename))
    ELSE FirstInDirs(files, project_path, possible_dirs, i + 1, filename)

\* what a call returns, or that it raised
Value(v) == [raised |-> FALSE, v |-> v]
Raised == [raised |-> TRUE, v |-> ""]

\* the template_material_project_path of a handler without a template base
NoPath == "None"

FindInFirstDirOnly(files, filename, project_path, material_type) ==
    IF filename = "" \/ material_type = "" THEN Value("")
    ELSE IF project_path = NoPath THEN Raised
    ELSE IF ~IsDir(files, project_path) THEN Value("")
    ELSE Value(FirstInDirs(files, project_path, <<TEMPLATE_TYPE_DIRS(material_type)[1]>>, 1,
                           filename))

\* FileSystemHandler.find_template_material_by_name; None.is_dir() raises
\* AttributeError
FindTemplateMaterialByName(files, filename, project_path, material_type) ==
    IF filename = "" \/ material_type = "" THEN Value("")
    ELSE IF project_path = NoPath THEN Raised
    ELSE IF ~IsDir(files, project_path) THEN Value("")
    ELSE Value(FirstInDirs(files, project_path, TEMPLATE_TYPE_DIRS(material_type), 1, filename))

\* self.get_template_project_name() and self.project_path.name of the handler
TemplateName == "tpl"
ProjectDirName == "proj"

TemplateProjectAt(template_base_path) ==
    IF PathName(template_base_path) = TemplateName THEN template_base_path
    ELSE PathJoin(template_base_path, TemplateName)

\* template_material_project_path of _build_material_map
TemplateMaterialProjectPath(template_base) ==
    IF template_base = "" THEN NoPath ELSE TemplateProjectAt(Resolve(template_base))

\* csv_row_data.get("ProjectName", self.project_path.name)
ProjectNameForChange(row) ==
    IF "ProjectName" \in DOMAIN row THEN row["ProjectName"] ELSE ProjectDirName

\* extra_info_val.split(".")[0]
PlaceholderBase(material) == SplitHead(material.extra_info, ".")

CsvFilename(row, placeholder_base) ==
    IF placeholder_base # "" /\ placeholder_base \in DOMAIN row THEN row[placeholder_base]
    ELSE ""

RECURSIVE PrefixType(_, _)
\* the loop over MATERIAL_TYPE_MAP.items(): the type of the first prefix p
\* with placeholder_base.startswith(p + '_')
PrefixType(placeholder_base, i) ==
    IF i > Len(MATERIAL_TYPE_MAP) THEN ""
    ELSE IF StartsWith(placeholder_base, MATERIAL_TYPE_MAP[i].prefix \o "_")
    THEN MATERIAL_TYPE_MAP[i].type_dir
    ELSE PrefixType(placeholder_base, i + 1)

TypeByParent(original_file_path_str) ==
    IF original_file_path_str # "" /\ PathParentName(original_file_path_str) \in LogicalTypes
    THEN PathParentName(original_file_path_str)
    ELSE ""

TypeByDeclared(material_type, original_file_path_str) ==
    IF material_type # "" /\ material_type \in MATERIAL_SUBFOLDERS THEN material_type
    ELSE TypeByParent(original_file_path_str)

TypeOr(by_prefix, material_type, original_file_path_str) ==
    IF by_prefix # "" THEN by_prefix
    ELSE TypeByDeclared(material_type, original_file_path_str)

\* mapped_type_dir of one material
MappedTypeDir(placeholder_base, material_type, original_file_path_str) ==
    TypeOr(IF placeholder_base = "" THEN "" ELSE PrefixType(placeholder_base, 1),
           material_type, original_file_path_str)

\* change_subdir_to_search of one material
ChangeSubdirToSearch(placeholder_base) ==
    IF placeholder_base # "" /\ SplitHead(placeholder_base, "_") \in DirectChangeSubdirs
    THEN SplitHead(placeholder_base, "_")
    ELSE ""

\* final_path_str and source_log of one material, or that the pass raised
Outcome(final_path_str, source_log) ==
    [raised |-> FALSE, final |-> final_path_str, source |-> source_log]
RaisedOutcome == [raised |-> TRUE, final |-> "", source |-> "raised"]

FromTemplate(original_file_path_str, template_path, found_source, missing_source) ==
    IF template_path.raised THEN RaisedOutcome
    ELSE IF template_path.v # "" THEN Outcome(template_path.v, found_source)
    ELSE Outcome(original_file_path_str, missing_source)

\* the search of the template tree for the name of the original file
TemplateSearch(files, original_file_path_str, project_path, mapped_type_dir, found_source, missing_source) ==
    FromTemplate(original_file_path_str,
                 FindTemplateMaterialByName(files, PathName(original_file_path_str),
                                            project_path, mapped_type_dir),
                 found_source, missing_source)

\* capcut_handler.py 263-282 and 285-304: the fallback of a CSV override
Fallback(files, original_file_path_str, project_path, mapped_type_dir) ==
    IF mapped_type_dir # "" /\ original_file_path_str # ""
    THEN TemplateSearch(files, original_file_path_str, project_path, mapped_type_dir,
                        "TemplateMaterial (CSV Fallback)", "Original (CSV Fallback Failed)")
    ELSE Outcome(original_file_path_str, "Original (Fallback Failed - No Orig Path)")

AfterChange(files, original_file_path_str, project_path, mapped_type_dir, change_path) ==
    IF change_path # "" THEN Outcome(change_path, "ChangeMaterial (CSV Override)")
    ELSE Fallback(files, original_file_path_str, project_path, mapped_type_dir)

\* capcut_handler.py 245-304: change_path is assigned only under
\* "if change_base_path:", so reading it without a change base raises
\* UnboundLocalError
WithOverride(files, project_name, project_path, change_base, original_file_path_str, mapped_type_dir, change_subdir, csv_filename) ==
    IF change_subdir = ""
    THEN Fallback(files, original_file_path_str, project_path, mapped_type_dir)
    ELSE IF change_base = "" THEN RaisedOutcome
    ELSE AfterChange(files, original_file_path_str, project_path, mapped_type_dir,
                     FindChangeMaterial(files, csv_filename, project_name, change_subdir,
                                        Resolve(change_base)))

\* capcut_handler.py 307-329
WithoutOverride(files, original_file_path_str, project_path, mapped_type_dir) ==
    IF mapped_type_dir # "" /\ original_file_path_str # ""
    THEN TemplateSearch(files, original_file_path_str, project_path, mapped_type_dir,
                        "TemplateMaterial (Default)", "Original (Template Not Found)")
    ELSE Outcome("", "Error (Missing Original Path)")

\* capcut_handler.py 239-329
FinalPath(files, project_name, project_path, change_base, original_file_path_str, mapped_type_dir, change_subdir, csv_filename) ==
    IF change_subdir = "" /\ mapped_type_dir = ""
    THEN Outcome(original_file_path_str, "Original (Type Unknown)")
    ELSE IF csv_filename # ""
    THEN WithOverride(files, project_name, project_path, change_base,
                      original_file_path_str, mapped_type_dir, change_subdir, csv_filename)
    ELSE WithoutOverride(files, original_file_path_str, project_path, mapped_type_dir)

\* what one pass of the loop over the materials did
Entry(kind, material, placeholder_base, csv_filename, mapped_type_dir, change_subdir, outcome) ==
    [kind |-> kind,
     placeholder |-> placeholder_base, original |-> material.file_Path,
     csv_filename |-> csv_filename, mapped_type_dir |-> mapped_type_dir,
     change_subdir |-> change_subdir,
     final |-> outcome.final, source |-> outcome.source]

Resolved(material, placeholder_base, csv_filename, mapped_type_dir, change_subdir, outcome) ==
    Entry(IF outcome.raised THEN "raised" ELSE "resolved",
          material, placeholder_base, csv_filename, mapped_type_dir, change_subdir, outcome)

Typed(files, row, template_base, change_base, material, placeholder_base, mapped_type_dir, change_subdir, csv_filename) ==
    Resolved(material, placeholder_base, csv_filename, mapped_type_dir, change_subdir,
             FinalPath(files, ProjectNameForChange(row),
                       TemplateMaterialProjectPath(template_base), change_base,
                       material.file_Path, mapped_type_dir, change_subdir, csv_filename))

Skipped(kind, material, placeholder_base) ==
    Entry(kind, material, placeholder_base, "", "", "", Outcome("", "skipped"))

WithPlaceholderAgain(files, row, template_base, change_base, processed, material, placeholder_base) ==
    IF placeholder_base = "" /\ material.file_Path = ""
    THEN Skipped("no_key", material, placeholder_base)
    ELSE Typed(files, row, template_base, change_base, material, placeholder_base,
               MappedTypeDir(placeholder_base, material.type, material.file_Path),
               ChangeSubdirToSearch(placeholder_base),
               CsvFilename(row, placeholder_base))

\* capcut_handler.py 193-203: the two continue statements of the loop
WithPlaceholder(files, row, template_base, change_base, processed, material, placeholder_base) ==
    IF placeholder_base = "" /\ material.file_Path = ""
    THEN Skipped("no_key", material, placeholder_base)
    ELSE IF placeholder_base # "" /\ placeholder_base \in processed
    THEN Skipped("duplicate", material, placeholder_base)
    ELSE Typed(files, row, template_base, change_base, material, placeholder_base,
               MappedTypeDir(placeholder_base, material.type, material.file_Path),
               ChangeSubdirToSearch(placeholder_base),
               CsvFilename(row, placeholder_base))

\* capcut_handler.py 187-329: one pass of the loop, for one material
MaterialPass(files, row, template_base, change_base, processed, material) ==
    WithPlaceholder(files, row, template_base, change_base, processed, material,
                    PlaceholderBase(material))

RegisterKey(map, map_register_key, entry) ==
    IF entry.original # "" /\ entry.original # map_register_key
    THEN (entry.original :> entry.final) @@ (map_register_key :> entry.final) @@ map
    ELSE (map_register_key :> entry.final) @@ map

\* capcut_handler.py 331-344: the final value under the placeholder, or the
\* original path when there is no placeholder, and under the original path
Register(map, entry) ==
    RegisterKey(map, IF entry.placeholder # "" THEN entry.placeholder ELSE entry.original,
                entry)

\* a column whose name starts with a prefix of MATERIAL_TYPE_MAP and "_"
IsMaterialKey(key) ==
    \E i \in 1..Len(MATERIAL_TYPE_MAP) : StartsWith(key, MATERIAL_TYPE_MAP[i].prefix \o "_")

TextKeysAny(row, map) ==
    { key \in DOMAIN row : ~IsMaterialKey(key) /\ row[key] # "" }

\* the columns the loop of capcut_handler.py 346-362 adds to the map
TextKeys(row, map) ==
    { key \in DOMAIN row :
         /\ ~IsMaterialKey(key) /\ Lower(key) # "projectname" /\ row[key] # ""
         /\ key \notin DOMAIN map }

RegisterTextKeys(row, map, keys) ==
    [key \in DOMAIN map \cup keys |-> IF key \in DOMAIN map THEN map[key] ELSE row[key]]

\* capcut_handler.py 346-362
WithTextColumns(row, map) == RegisterTextKeys(row, map, TextKeys(row, map))

-----------------------------------------------------------------------------
(* The resolver on bounded inputs *)

\* the longest list of declared materials
MaxMaterials == 2

Material(extra_info, file_Path, type) ==
    [extra_info |-> extra_info, file_Path |-> file_Path, type |-> type]

\* the declared materials: draft_materials groups of type 0, flattened
MaterialCatalogue ==
    { Material("img_01.png", "/o/image/a.png", "photo"),
      Material("img.png", "/o/x/b.png", "zz"),
      Material("txt_01.png", "/o/x/c.png", "zz"),
      Material("img_02.png", "/o/image/a.png", ""),
      Material("", "/o/image/a.png", ""),
      Material("", "", "") }

MaterialLists == UNION { [1..n -> MaterialCatalogue] : n \in 0..MaxMaterials }

Row(pairs) == [key \in { pair[1] : pair \in pairs } |->
                  (CHOOSE pair \in pairs : pair[1] = key)[2]]

ResolverCsvRows ==
    { Row({}),
      Row({<<"ProjectName", "p.1">>, <<"img_01", "n.png">>, <<"img", "n.png">>,
           <<"title", "T">>, <<"txt_01", "hello">>, <<"img_zz", "q">>}),
      Row({<<"img_01", "n.png">>, <<"img", "n.png">>, <<"img_02", "">>,
           <<"title", "T">>, <<"Title", "">>, <<"projectname", "x">>}),
      Row({<<"ProjectName", "">>, <<"img_01", "n.png">>}) }

TemplateBases == {"", "/t", "/t/tpl/"}
ChangeBases == {"", "/c"}

FileSystems ==
    { {"/c/proj/img/n.png"},
      {"/c/proj/img/n.png", "/t/tpl/image/a.png"},
      {"/c/p.1/img/n.png", "/t/tpl/image/n.png"},
      {"/c/p_1/img/n.png", "/c/img/n.png", "/t/tpl/photo/a.png"},
      {"/t/tpl/image/a.png", "/t/tpl/photo/a.png"} }

\* the rule configuration of the handler's engine
ResolverConfigDocument ==
    JObj(<<KV("path_rules",
              JArr(<<JObj(<<KV("id", JStr("lookup")), KV("type", JStr("material_map_lookup")),
                            KV("target_keys", JArr(<<JStr("file_Path")>>)),
                            KV("lookup_methods",
                               JArr(<<JObj(<<KV("method", JStr("field_value")),
                                             KV("field", JStr("file_Path"))>>)>>))>>)>>)),
           KV("text_rules", JArr(<<>>))>>)

\* self.meta_data: draft_meta_info.json with the declared materials
MetaData(declared) ==
    JObj(<<KV("draft_materials",
              JArr(<<JObj(<<KV("type", JNum(0)),
                            KV("value",
                               JArr([i \in 1..Len(declared) |->
                                       JObj(<<KV("extra_info", JStr(declared[i].extra_info)),
                                              KV("file_Path", JStr(declared[i].file_Path)),
                                              KV("type", JStr(declared[i].type))>>)]))>>)>>))>>)

\* a dict of strings as the engine's context holds it
AsJson(map) == [key \in DOMAIN map |-> JStr(map[key])]

NoStrings == [key \in {} |-> ""]

ResolverInit ==
    /\ materials \in MaterialLists
    /\ csv_row_data \in ResolverCsvRows
    /\ template_material_base \in TemplateBases
    /\ change_material_base \in ChangeBases
    /\ fs_files \in FileSystems
    /\ material_map = NoStrings
    /\ processed_placeholders = {}
    /\ mat_idx = 1
    /\ resolved = <<>>
    /\ rpc = "materials"
    /\ update_result = "none"
    /\ config_data = ResolverConfigDocument
    /\ engine = NewEngine(ResolverConfigDocument)
    /\ json_data = MetaData(materials)
    /\ processed_data = Off /\ trail = Off
    /\ ctx_material_map = Off /\ ctx_csv_row = Off /\ epc = Off
    /\ OutsideResolverOff

\* the pass of the loop of _build_material_map for the next material
NextPass ==
    MaterialPass(fs_files, csv_row_data, template_material_base, change_material_base,
                 processed_placeholders, materials[mat_idx])

InLoop == rpc = "materials" /\ mat_idx <= Len(materials)

engineInputs == <<config_data, json_data, ctx_material_map, ctx_csv_row, engine, epc>>
resolverInputs ==
    <<materials, csv_row_data, template_material_base, change_material_base, fs_files>>

\* continue: a material without placeholder and path, or with a
\* placeholder already seen
Skip(entry) ==
    /\ entry.kind \in {"no_key", "duplicate"}
    /\ resolved' = Append(resolved, entry)
    /\ mat_idx' = mat_idx + 1
    /\ UNCHANGED <<material_map, processed_placeholders, rpc, update_result>>

\* the final value of the material is determined and registered
Determined(entry) ==
    /\ entry.kind = "resolved"
    /\ material_map' = Register(material_map, entry)
    /\ processed_placeholders' =
          processed_placeholders \cup (IF entry.placeholder # ""
                                       THEN {entry.placeholder} ELSE {})
    /\ resolved' = Append(resolved, entry)
    /\ mat_idx' = mat_idx + 1
    /\ UNCHANGED <<rpc, update_result>>

\* an exception leaves _build_material_map; update_material_paths catches
\* it, logs and returns False
Raises(entry) ==
    /\ entry.kind = "raised"
    /\ resolved' = Append(resolved, entry)
    /\ rpc' = "failed"
    /\ update_result' = "False"
    /\ UNCHANGED <<material_map, processed_placeholders, mat_idx>>

Passed(entry) == Skip(entry) \/ Determined(entry) \/ Raises(entry)

\* one pass of the loop of _build_material_map over the declared materials
ResolveMaterial ==
    /\ InLoop
    /\ Passed(NextPass)
    /\ UNCHANGED <<processed_data, trail, engineInputs, resolverInputs, outsideResolver>>

\* the text columns of the row, after the last material
RegisterText ==
    /\ rpc = "materials" /\ mat_idx > Len(materials)
    /\ material_map' = WithTextColumns(csv_row_data, material_map)
    /\ rpc' = "process"
    /\ UNCHANGED <<processed_placeholders, mat_idx, resolved, update_result,
                   processed_data, trail, engineInputs, resolverInputs, outsideResolver>>

\* self.meta_data = self.mapping_engine.process_json(self.meta_data,
\* material_map, csv_row_data); return True.  draft_data goes through the
\* same call with the same map and row; the state keeps the meta document.
UpdateDocuments ==
    /\ rpc = "process"
    /\ Returned(ProcessJson(engine, json_data, AsJson(material_map), AsJson(csv_row_data)))
    /\ rpc' = "done"
    /\ update_result' = "True"
    /\ UNCHANGED <<material_map, processed_placeholders, mat_idx, resolved,
                   engineInputs, resolverInputs, outsideResolver>>

ResolverNext == ResolveMaterial \/ RegisterText \/ UpdateDocuments

SpecResolver == ResolverInit /\ [][ResolverNext]_vars

(* The resolver on materials typed by each of the three rules *)

\* declared materials whose type comes from the placeholder prefix
\* (photo, image), from the declared type (img) and from the parent
\* directory (audio), and two materials with the placeholder img_01
TypedCatalogue ==
    { Material("photo_1.png", "/o/x/a.png", ""),
      Material("", "/o/x/a.png", "img"),
      Material("", "/o/audio/a.png", "zz"),
      Material("img_01.png", "/o/image/a.png", ""),
      Material("img_01.jpg", "/o/x/b.png", "") }

TypedLists == UNION { [1..n -> TypedCatalogue] : n \in 0..MaxMaterials }

TypedCsvRows == { Row({}), Row({<<"img_01", "n.png">>, <<"title", "T">>}) }

TypedFileSystems ==
    { {"/t/tpl/image/a.png", "/t/tpl/image/b.png"},
      {"/t/tpl/photo/a.png", "/t/tpl/img/a.png", "/c/proj/img/n.png"},
      {"/t/tpl/music/a.png"},
      {"/t/tpl/audio/a.png", "/t/tpl/music/a.png", "/t/tpl/img/b.png"} }

TypedInit ==
    /\ materials \in TypedLists
    /\ csv_row_data \in TypedCsvRows
    /\ template_material_base \in {"", "/t"}
    /\ change_material_base = "/c"
    /\ fs_files \in TypedFileSystems
    /\ material_map = NoStrings
    /\ processed_placeholders = {}
    /\ mat_idx = 1
    /\ resolved = <<>>
    /\ rpc = "materials"
    /\ update_result = "none"
    /\ config_data = ResolverConfigDocument
    /\ engine = NewEngine(ResolverConfigDocument)
    /\ json_data = MetaData(materials)
    /\ processed_data = Off /\ trail = Off
    /\ ctx_material_map = Off /\ ctx_csv_row = Off /\ epc = Off
    /\ OutsideResolverOff

SpecTyped == TypedInit /\ [][ResolverNext]_vars

-----------------------------------------------------------------------------
(* Properties of the resolver *)

\* the placeholder key of declared material i
PlaceholderOf(i) == SplitHead(materials[i].extra_info, ".")

\* the loop has passed material i
Passed_(i) == i < mat_idx

\* material i is the first of the list with its placeholder
FirstOfPlaceholder(i) == \A j \in 1..(i - 1) : PlaceholderOf(j) # PlaceholderOf(i)

\* the override filename the row supplies for material i, "" for none
OverrideOf(i) ==
    IF PlaceholderOf(i) # "" /\ PlaceholderOf(i) \in DOMAIN csv_row_data
    THEN csv_row_data[PlaceholderOf(i)] ELSE ""

\* the first segment of the placeholder of material i
FirstSegment(i) == SplitHead(PlaceholderOf(i), "_")

\* the project of the row, the project directory's name when it has none
ProjectOfRow ==
    IF "ProjectName" \in DOMAIN csv_row_data THEN csv_row_data["ProjectName"]
    ELSE ProjectDirName

\* <changeMaterialBase>/<project>/<subdir>/<csvFilename>
OverrideTreePath(project, subdir, csv_filename) ==
    Resolve(change_material_base \o "/" \o project \o "/" \o subdir \o "/" \o csv_filename)

\* the project name as a directory name: every character that is not
\* alphanumeric, "_" or "-" is "_"
AsDirectoryName(project) ==
    Concat([i \in 1..Len(project) |->
              IF Ch(project, i) \in CharsOf(LowerAlphabet \o UpperAlphabet \o DigitAlphabet \o "_-")
              THEN Ch(project, i) ELSE "_"])

TypeOf(i) == MappedTypeDir(PlaceholderOf(i), materials[i].type, materials[i].file_Path)

\* the template tree of the handler's template
TemplateTree == TemplateMaterialProjectPath(template_material_base)

\* the files of the template tree with this name under the alias
\* directories of the type, in the order of the aliases
TemplateTreePaths(type, name) ==
    SelectSeq([d \in 1..Len(TEMPLATE_TYPE_DIRS(type)) |->
                  TemplateTree \o "/" \o TEMPLATE_TYPE_DIRS(type)[d] \o "/" \o name],
              LAMBDA path : path \in fs_files)

\* the override file of material i is not in the override tree
OverrideMissing(i) ==
    \/ FirstSegment(i) \notin DirectChangeSubdirs
    \/ ProjectOfRow = ""
    \/ OverrideTreePath(AsDirectoryName(ProjectOfRow), FirstSegment(i), OverrideOf(i))
          \notin fs_files

ResolvedMaterial(i) ==
    /\ Passed_(i) /\ FirstOfPlaceholder(i)
    /\ PlaceholderOf(i) # "" \/ materials[i].file_Path # ""

\* the key material i is registered under
KeyOf(i) == IF PlaceholderOf(i) # "" THEN PlaceholderOf(i) ELSE materials[i].file_Path

\* no file of the template tree matches material i
NoTemplateMatch(i) ==
    \/ TypeOf(i) = "" \/ materials[i].file_Path = "" \/ template_material_base = ""
    \/ TemplateTreePaths(TypeOf(i), PathName(materials[i].file_Path)) = <<>>

\* no later material of the list has the path of material i as its own
PathNotShared(i) ==
    \A j \in 1..Len(materials) : j # i => materials[j].file_Path # materials[i].file_Path

\* C6: for every declared material with no CSV override and no matching
\* file in the template tree, the value registered in the material map is
\* the material's original path unchanged.  Refuted by a material whose
\* placeholder is "img" alone and whose type is not determined.
DefaultIsOriginalPath ==
    \A i \in 1..Len(materials) :
       (ResolvedMaterial(i) /\ PathNotShared(i) /\ OverrideOf(i) = "" /\ NoTemplateMatch(i))
       => /\ KeyOf(i) \in DOMAIN material_map
          /\ material_map[KeyOf(i)] = materials[i].file_Path

\* no prefix of the table matches the placeholder, the declared type is not
\* recognised, the parent directory's name is not recognised
TypeUndetermined(i) ==
    /\ \A k \in 1..Len(MATERIAL_TYPE_MAP) :
          ~StartsWith(PlaceholderOf(i), MATERIAL_TYPE_MAP[k].prefix \o "_")
    /\ materials[i].type \notin MATERIAL_SUBFOLDERS
    /\ PathParentName(materials[i].file_Path) \notin LogicalTypes

\* C7: for every declared material whose logical type cannot be determined,
\* the value registered in the material map is the material's original
\* path unchanged, with or without a CSV override.  Refuted by a material
\* whose placeholder is "img" alone: its value is the override when the
\* override is found, and empty without an override.
UndeterminedTypeKeepsOriginal ==
    \A i \in 1..Len(materials) :
       (ResolvedMaterial(i) /\ PathNotShared(i) /\ TypeUndetermined(i))
       => /\ KeyOf(i) \in DOMAIN material_map
          /\ material_map[KeyOf(i)] = materials[i].file_Path

\* C8: building the material map never aborts because a base directory is
\* missing: when the override base or the template base is empty,
\* update_material_paths does not fail and the materials and text columns
\* are resolved.  Refuted by an override for a material without an
\* override base, and by a template search without a template base.
MissingBaseNeverAborts ==
    (change_material_base = "" \/ template_material_base = "")
       => /\ rpc # "failed"
          /\ update_result # "False"

\* C9: after one resolution pass, for every declared material that was
\* resolved and has both a placeholder key p and a non-empty original path
\* o, the material map contains both p and o and map[p] = map[o], for any
\* list of declared materials.  Refuted by two materials with different
\* placeholders and the same original path.
BothKeysSameValue ==
    rpc \in {"process", "done"} =>
       \A i \in 1..Len(materials) :
          (ResolvedMaterial(i) /\ PlaceholderOf(i) # "" /\ materials[i].file_Path # "")
          => /\ PlaceholderOf(i) \in DOMAIN material_map
             /\ materials[i].file_Path \in DOMAIN material_map
             /\ material_map[PlaceholderOf(i)] = material_map[materials[i].file_Path]

\* the keys the materials registered, and the value the last one gave
MaterialKeys ==
    { k \in { resolved[i].placeholder : i \in 1..Len(resolved) }
            \cup { resolved[i].original : i \in 1..Len(resolved) } :
         \E i \in 1..Len(resolved) :
            /\ resolved[i].kind = "resolved" /\ k # ""
            /\ k = resolved[i].original
               \/ k = (IF resolved[i].placeholder # "" THEN resolved[i].placeholder
                       ELSE resolved[i].original) }

MaterialValue(k) ==
    resolved[MaxOrZero({ i \in 1..Len(resolved) :
                           /\ resolved[i].kind = "resolved"
                           /\ k \in {resolved[i].placeholder, resolved[i].original} })].final

\* a column that qualifies as text: not material-prefixed, not the
\* project-name column, with a value
TextColumn(key) ==
    /\ \A k \in 1..Len(MATERIAL_TYPE_MAP) : ~StartsWith(key, MATERIAL_TYPE_MAP[k].prefix \o "_")
    /\ Lower(key) # "projectname"
    /\ csv_row_data[key] # ""

\* C10: every CSV column that is not material-prefixed, is not the
\* project-name column and has a non-empty value is registered in the
\* material map under its name with its value, unless a material entry
\* already holds that key, in which case the material's value is kept; no
\* other CSV column is registered as text.
TextColumnsRegistered ==
    rpc \in {"process", "done"} =>
       /\ \A key \in DOMAIN csv_row_data :
             TextColumn(key) =>
                /\ key \in DOMAIN material_map
                /\ material_map[key] = IF key \in MaterialKeys THEN MaterialValue(key)
                                       ELSE csv_row_data[key]
       /\ \A key \in DOMAIN material_map :
             key \notin MaterialKeys => key \in DOMAIN csv_row_data /\ TextColumn(key)

\* the row has the text columns title and txt_01, a material-prefixed
\* column and the project name; txt_01 is a material's placeholder too and
\* keeps the material's value, title is registered, the others are not
TextColumnBesideMaterialKey ==
    /\ rpc = "done"
    /\ {"title", "txt_01", "img_zz", "ProjectName"} \subseteq DOMAIN csv_row_data
    /\ csv_row_data["txt_01"] = "hello"
    /\ {"title", "txt_01"} \subseteq DOMAIN material_map
    /\ material_map["title"] = "T"
    /\ material_map["txt_01"] = "/o/x/c.png"
    /\ "img_zz" \notin DOMAIN material_map
    /\ "ProjectName" \notin DOMAIN material_map

-----------------------------------------------------------------------------
(* Properties of the search of the template tree *)

\* the alias directories of the type a directory name belongs to: image,
\* photo and img for images, audio, music, bgm, se and voice for audio
AliasesOf(type) ==
    CASE type \in {"image", "photo", "img"} -> <<"image", "photo", "img">>
      [] type \in {"audio", "music", "bgm", "se", "voice"} ->
            <<"audio", "music", "bgm", "se", "voice">>
      [] OTHER -> <<type>>

\* the files of the template tree with this name under the alias
\* directories of the type, in the order of the aliases
AliasMatches(type, name) ==
    SelectSeq([d \in 1..Len(AliasesOf(type)) |->
                  TemplateTree \o "/" \o AliasesOf(type)[d] \o "/" \o name],
              LAMBDA path : path \in fs_files)

\* the source_log values of a material that went through the search of the
\* template tree
TemplateSearched ==
    {"TemplateMaterial (Default)", "Original (Template Not Found)",
     "TemplateMaterial (CSV Fallback)", "Original (CSV Fallback Failed)"}

\* the search of the template tree was made for pass i of the loop
SearchedInTemplate(i) ==
    resolved[i].kind = "resolved" /\ resolved[i].source \in TemplateSearched

\* C21: for every material whose type is determined, whichever rule
\* determined it, the search of the template tree returns the first file
\* with the original's name under the alias directories of the type, taken
\* in order, and the original path when no alias directory holds it.
\* Refuted by a material typed photo by its placeholder prefix whose file
\* is under the alias image.
TemplateSearchProbesEveryAlias ==
    \A i \in 1..Len(resolved) :
       SearchedInTemplate(i)
       => resolved[i].final =
             IF AliasMatches(resolved[i].mapped_type_dir, PathName(resolved[i].original)) # <<>>
             THEN AliasMatches(resolved[i].mapped_type_dir, PathName(resolved[i].original))[1]
             ELSE resolved[i].original

-----------------------------------------------------------------------------
(* Properties of key matching *)

\* the rule configurations of one list of the configuration document
ConfiguredRules(list_key) == DictGet(config_data, list_key, JArr(<<>>)).e

\* the configuration the rule object was built from
ConfigurationOf(list_key, rule) ==
    ConfiguredRules(list_key)[CHOOSE n \in 1..Len(ConfiguredRules(list_key)) :
                                 DictGet(ConfiguredRules(list_key)[n], "id", JNull) = rule.id]

\* target_keys of the configuration is a list that holds "*" or the key
NamesKey(rule_config, key) ==
    /\ DictGet(rule_config, "target_keys", JNull).t = "arr"
    /\ \E j \in 1..Len(DictGet(rule_config, "target_keys", JNull).e) :
          DictGet(rule_config, "target_keys", JNull).e[j] \in {JStr("*"), JStr(key)}

\* no configured rule names the key
Unnamed(key) ==
    \A list_key \in {"path_rules", "text_rules"} :
       \A n \in 1..Len(ConfiguredRules(list_key)) :
          ~NamesKey(ConfiguredRules(list_key)[n], key)

\* every rule called for the field of record v names its key
CalledRulesName(v) ==
    /\ \A a \in 1..Len(v.path_steps) :
          NamesKey(ConfigurationOf("path_rules", engine.path_rules[v.path_steps[a].r]), v.key)
    /\ \A a \in 1..Len(v.text_steps) :
          NamesKey(ConfigurationOf("text_rules", engine.text_rules[v.text_steps[a].r]), v.key)

\* C22: a rule is applied to a field only if its target keys are a list that
\* holds "*" or the field's key literally, so a rule whose target keys are
\* empty, missing or no list is applied to no field; a string field whose
\* key no rule names comes out of process_json as it went in, unless it is
\* JSON content under a content key, which is re-serialized.
RulesApplyToNamedKeysOnly ==
    epc = "done" =>
       /\ \A i \in 1..Len(trail) :
             /\ CalledRulesName(trail[i])
             /\ (Unnamed(trail[i].key) /\ ~HoldsJson(trail[i]))
                => trail[i].text_out = trail[i].raw
       /\ json_data.t = "obj" =>
             \A n \in 1..Len(json_data.f) :
                (/\ IsStr(json_data.f[n].v) /\ Unnamed(json_data.f[n].k)
                 /\ ~(json_data.f[n].k = "content" /\ Loads(json_data.f[n].v.s).ok))
                => processed_data.f[n] = json_data.f[n]

\* the text rule has the string "k" as target keys and left the field k
\* with value A alone, while the path rule, whose list names the key path,
\* changed a field path
StringTargetKeysMatchedNothing ==
    /\ epc = "done"
    /\ DictGet(ConfiguredRules("text_rules")[1], "target_keys", JNull) = JStr("k")
    /\ Len(engine.text_rules) = 1
    /\ \E i, j \in 1..Len(trail) :
          /\ trail[i].key = "k" /\ trail[i].raw = "A" /\ trail[i].text_out = "A"
          /\ trail[i].text_steps = <<>>
          /\ trail[j].key = "path" /\ trail[j].path_out # trail[j].raw

-----------------------------------------------------------------------------
(* Properties of materials that share a placeholder *)

\* the first pass of the loop for the placeholder of pass i
FirstPassOf(i) ==
    CHOOSE j \in 1..i :
       /\ resolved[j].placeholder = resolved[i].placeholder
       /\ \A m \in 1..(j - 1) : resolved[m].placeholder # resolved[i].placeholder

\* a pass that was not skipped has k as its placeholder or its original path
KeyOfRegistered(k) ==
    \E j \in 1..Len(resolved) :
       /\ resolved[j].kind = "resolved"
       /\ k \in {resolved[j].placeholder, resolved[j].original}

\* C28: of the materials that share a placeholder only the first in
\* document order is resolved and registered; every later one is skipped,
\* the map keeps the first one's value under the placeholder, and the
\* original path of a skipped material is no key of the map unless a
\* material that was not skipped or a text column registered it.
DuplicatePlaceholdersSkipped ==
    \A i \in 1..Len(resolved) :
       resolved[i].placeholder # "" =>
          /\ (i # FirstPassOf(i)) <=> (resolved[i].kind = "duplicate")
          /\ (/\ resolved[FirstPassOf(i)].kind = "resolved"
              /\ \A j \in 1..Len(resolved) : resolved[j].original # resolved[i].placeholder)
             => /\ resolved[i].placeholder \in DOMAIN material_map
                /\ material_map[resolved[i].placeholder] = resolved[FirstPassOf(i)].final
          /\ (/\ i # FirstPassOf(i)
              /\ ~KeyOfRegistered(resolved[i].original)
              /\ resolved[i].original \notin DOMAIN csv_row_data)
             => resolved[i].original \notin DOMAIN material_map

\* the loop is over; a material whose placeholder an earlier material had
\* was passed, its original path is no key of the map, and the placeholder
\* maps to the file found for the earlier material
LaterDuplicateLeftOut ==
    /\ rpc \in {"process", "done"}
    /\ \E i \in 1..Len(resolved) :
          /\ resolved[i].placeholder # "" /\ i # FirstPassOf(i)
          /\ resolved[i].original # ""
          /\ resolved[i].original # resolved[FirstPassOf(i)].original
          /\ resolved[i].original \notin DOMAIN material_map
          /\ resolved[FirstPassOf(i)].kind = "resolved"
          /\ resolved[FirstPassOf(i)].final # resolved[FirstPassOf(i)].original
          /\ material_map[resolved[i].placeholder] = resolved[FirstPassOf(i)].final

-----------------------------------------------------------------------------
(* Properties of the text rules on JSON content *)

\* the fields the nested walk of the content field of record i visited
NestedVisitsOf(i) ==
    { j \in (i + 1)..Len(trail) : \A m \in (i + 1)..j : trail[m].json > trail[i].json }

RECURSIVE StringFieldsOf(_)
\* the string fields of a document, as pairs of key and value
StringFieldsOf(node) ==
    CASE node.t = "obj" ->
           UNION { IF IsStr(node.f[n].v) THEN { <<node.f[n].k, node.f[n].v.s>> }
                   ELSE StringFieldsOf(node.f[n].v) : n \in 1..Len(node.f) }
      [] node.t = "arr" -> UNION { StringFieldsOf(node.e[n]) : n \in 1..Len(node.e) }
      [] OTHER -> {}

\* rule r changed the string of the nested field of record j
RewroteNested(r, j) ==
    \E a \in 1..Len(trail[j].text_steps) :
       /\ trail[j].text_steps[a].r = r
       /\ trail[j].text_steps[a].out # trail[j].text_steps[a].in

\* the string s is a document that holds the nested field as record j left it
HoldsNestedText(s, j) ==
    /\ Loads(s).ok
    /\ <<trail[j].key, trail[j].text_out>> \in StringFieldsOf(Loads(s).v)

\* C27: a text rule that rewrote the string of a field nested in JSON
\* content does not change that string again when it is called on the
\* re-serialized content string.  Refuted by a rule for "*" whose
\* replacement matches its own pattern: the loop over the text rules runs
\* on the whole re-serialized string, nested text included.
NestedTextRewrittenOnce ==
    epc = "done" =>
       \A i \in 1..Len(trail) :
          trail[i].nested =>
             \A a \in 1..Len(trail[i].text_steps), j \in NestedVisitsOf(i) :
                (/\ RewroteNested(trail[i].text_steps[a].r, j)
                 /\ HoldsNestedText(trail[i].text_steps[a].in, j))
                => HoldsNestedText(trail[i].text_steps[a].out, j)

=============================================================================
